---- MODULE Spec2Model ----
(***************************************************************************)
(* Session lifecycle manager (DeribitAuth), audit logger (DeribitLogger)   *)
(* and request dispatcher (DeribitTrader._make_request).                   *)
(*                                                                         *)
(* Conventions                                                             *)
(*  - a Python Optional is a sequence of length 0 (None) or 1 (a value);   *)
(*  - a Python str that may carry a sensitive value is a sequence of       *)
(*    atoms (TLA+ strings): literal pieces are one atom each, the          *)
(*    characters of identifiers, secrets and tokens are one atom each, so  *)
(*    that slicing (token[:10]), prefix tests (startswith) and substring   *)
(*    search are computed on the text itself;                              *)
(*  - a Python dict is a function whose domain is its key set;             *)
(*  - time.time() is the integer variable now (seconds).                   *)
(*  - call is the call that has just returned or raised (its inputs, the    *)
(*    requests it sent, its outcome) and auth_log, trades_log, api_log are *)
(*    the lines it appended to each stream; files are opened in append     *)
(*    mode and never read back, so lines of earlier calls take no part in  *)
(*    any operation.  Once time passes, no call has just returned.         *)
(*                                                                         *)
(* Specifications                                                          *)
(*  - Spec: the calls a client makes on one constructed session, one call  *)
(*    at a time;                                                           *)
(*  - ConstructSpec: the constructor, in every environment of credential   *)
(*    sources;                                                             *)
(*  - LoggerSpec: threads calling one DeribitLogger, each log call taken   *)
(*    step by step down to the pieces written to the files;                *)
(*  - RaceSpec: threads calling get_headers on one DeribitAuth, which      *)
(*    takes no lock: each read, request and assignment is a step.          *)
(***************************************************************************)
EXTENDS Integers, Sequences, FiniteSets, TLC

VARIABLES
    client_id,      \* self.client_id
    client_secret,  \* self.client_secret
    logger,         \* self.logger is not None
    access_token,   \* self.access_token
    refresh_token,  \* self.refresh_token
    token_expiry,   \* self.token_expiry
    scope,          \* self.scope
    now,            \* time.time()
    auth_log,       \* lines appended to auth_YYYYMMDD.jsonl by the call
    trades_log,     \* lines appended to trades_YYYYMMDD.jsonl by the call
    api_log,        \* lines appended to api_YYYYMMDD.jsonl by the call
    call,           \* the call that has just returned: inputs, requests, outcome
    environ,        \* where credentials can be found when DeribitAuth is constructed
    _credentials_source, \* self._credentials_source
    today,          \* datetime.now(timezone.utc), the day
    lock,           \* DeribitLogger._lock: the thread holding it, if any
    files,          \* the log directory: file name -> what has been written to it
    threads,        \* the threads calling one DeribitLogger: where each stands
    returned,       \* per category, the log calls that have returned
    callers,        \* the threads calling get_headers on one session: where each stands
    trace           \* what those threads wrote and sent, in the order it happened

\* the session and the lines of its latest call
svars == <<client_id, client_secret, logger, access_token, refresh_token,
           token_expiry, scope, now, auth_log, trades_log, api_log, call>>

\* the credentials sources read by __init__
cvars == <<environ, _credentials_source>>

\* one DeribitLogger and the threads that call it
lvars == <<today, lock, files, threads, returned>>

\* one DeribitAuth and the threads that call it
rvars == <<callers, trace>>

vars == <<svars, cvars, lvars, rvars>>

-----------------------------------------------------------------------------
(* Bounds of the model *)

MaxTime == 60
TickStep == 30
MaxCalls == 2
MaxDay == 1

-----------------------------------------------------------------------------
(* Optionals and text *)

None == <<>>
Some(x) == <<x>>
IsNone(o) == o = <<>>
Val(o) == o[1]

Min(a, b) == IF a < b THEN a ELSE b

\* s occurs in text as a contiguous run of characters
Contains(text, s) ==
    /\ Len(s) > 0
    /\ \E i \in 1..(Len(text) - Len(s) + 1) : SubSeq(text, i, i + Len(s) - 1) = s

\* str.startswith(prefix)
StartsWith(text, prefix) ==
    /\ Len(text) >= Len(prefix)
    /\ SubSeq(text, 1, Len(prefix)) = prefix

\* text[:n]
Prefix(text, n) == SubSeq(text, 1, Min(n, Len(text)))

-----------------------------------------------------------------------------
(* Values the environment supplies *)

ClientIds == { <<"m", "y", "i", "d", "5">>, <<"u", "4">> }
ClientSecrets == { <<"s", "3", "k", "7">> }

LongToken == <<"a", "b", "c", "d", "e", "f", "g", "h", "i", "j", "k", "l">>
ShortToken == <<"x", "y", "z">>
AccessTokens == { LongToken, ShortToken }
RefreshTokenOf(tok) == IF tok = LongToken THEN <<"r", "1">> ELSE <<"r", "2">>
ExpiresIns == { 30, 120 }
DefaultScope == "session:default"

CredentialsSource == "direct_parameters"

-----------------------------------------------------------------------------
(* Exceptions and the transport *)

\* a Python exception: type(e).__name__, str(e), e.response.status_code
Exc(type, message, status_code) ==
    [type |-> type, message |-> message, status_code |-> status_code]

\* str(KeyError(key))
KeyError(key) == Exc("KeyError", <<"'", key, "'">>, None)

\* the query string requests builds from params: k=v&k=v
RECURSIVE QueryText(_)
QueryText(params) ==
    IF params = <<>> THEN <<>>
    ELSE <<params[1][1], "=">> \o params[1][2]
         \o (IF Len(params) > 1 THEN <<"&">> ELSE <<>>)
         \o QueryText(Tail(params))

\* url = f"{self.base_url}/api/v2/{method}" with the query string appended
UrlText(req) ==
    <<"https://test.deribit.com/api/v2/", req.method, "?">> \o QueryText(req.params)

\* What session.get / raise_for_status / response.json can raise.
\*  HTTPError: raise_for_status on a 4xx/5xx answer; its text ends with
\*             "for url: <the full request URL, query string included>" and it
\*             carries the response (status_code)
\*  Timeout:   no answer; the text names no URL and there is no response
\*  Marked:    a transport failure whose text happens to begin with "API Error:"
TransportKinds == {"HTTPError", "Timeout", "Marked"}

TransportExc(kind, req) ==
    CASE kind = "HTTPError" ->
           Exc("HTTPError", <<"401 Client Error: Unauthorized for url: ">> \o UrlText(req), Some(401))
      [] kind = "Timeout" ->
           Exc("ReadTimeout", <<"Read timed out.">>, None)
      [] OTHER ->
           Exc("ConnectionError", <<"API Error:", " upstream gateway closed the connection">>, None)

\* API error objects: a dict with code and message, or a bare string
ErrDict == [t |-> "dict", code |-> 13004, message |-> <<"invalid_credentials">>]
ErrStr == [t |-> "str", v |-> <<"rate limited">>]

\* repr of an API error object inside an f-string
ReprErr(e) ==
    IF e.t = "dict"
    THEN <<"{'code': ", ToString(e.code), ", 'message': '">> \o e.message \o <<"'}">>
    ELSE <<"'">> \o e.v \o <<"'">>

\* repr of a response body that has no result key
ReprBody(body) ==
    IF "error" \in DOMAIN body
    THEN <<"{'jsonrpc': '2.0', 'error': ">> \o ReprErr(body.error) \o <<"}">>
    ELSE <<"{'jsonrpc': '2.0'}">>

-----------------------------------------------------------------------------
(* DeribitLogger *)

mask_client_id(cid) ==
    IF IsNone(cid) \/ Val(cid) = <<>> THEN None
    ELSE IF Len(Val(cid)) <= 4 THEN Some(<<"*", "*", "*", "*">>)
    ELSE Some(SubSeq(Val(cid), 1, 4) \o <<"*", "*", "*", "*">>)

TokenPrefixLen == 10

mask_token_whole(token) ==
    IF IsNone(token) \/ Val(token) = <<>> THEN None
    ELSE Some(Val(token) \o <<"...">>)

mask_token(token) ==
    IF IsNone(token) \/ Val(token) = <<>> THEN None
    ELSE Some(Prefix(Val(token), TokenPrefixLen) \o <<"...">>)

format_error(exception, error_code, error_message, http_status) ==
    [error_code |-> error_code,
     error_message |-> error_message,
     exception_type |-> IF IsNone(exception) THEN None ELSE Some(Val(exception).type),
     exception_message |-> IF IsNone(exception) THEN None ELSE Some(Val(exception).message),
     http_status |-> http_status]

\* the entry log_auth builds (timestamp, log_id, latency_ms, environment and
\* base_url carry no session value and are left out)
AuthEntry(event, cid, method, scope_requested, scope_granted, token_expires_in, token, credentials_source, status, error, api_method) ==
    [event |-> event,
     status |-> status,
     method |-> method,
     client_id |-> mask_client_id(cid),
     scope_requested |-> scope_requested,
     scope_granted |-> scope_granted,
     token_expires_in |-> token_expires_in,
     token_prefix |-> mask_token(token),
     error |-> error,
     api_method |-> api_method,
     credentials_source |-> credentials_source]

\* log_auth: appends one line to the auth stream when a logger is attached
\* a plausible slip: the line is dropped
log_auth_dropped(lg, log, entry) == log

log_auth(lg, log, entry) == IF lg THEN Append(log, entry) ELSE log

-----------------------------------------------------------------------------
(* DeribitAuth *)

\* the token fields of a session
Session(at, rt, exp, sc) ==
    [access_token |-> at, refresh_token |-> rt, token_expiry |-> exp, scope |-> sc]

\* what a call did: the session it leaves, the auth lines it appended, the
\* requests it sent, the exception it raises (or None) and the value it returns
Effect(s, log, reqs, exc, value) ==
    [s |-> s, auth |-> log, reqs |-> reqs, exc |-> exc, value |-> value]

\* isinstance(e, Exception.__class__): Exception.__class__ is type, and no
\* exception instance is a class
IsInstanceOfType(e) == FALSE

StoreResult_relative(s, r, t, stores_scope) ==
    IF "access_token" \notin DOMAIN r
    THEN [s |-> s, exc |-> Some(KeyError("access_token"))]
    ELSE LET s1 == [s EXCEPT !.access_token = Some(r.access_token)] IN
    IF "refresh_token" \notin DOMAIN r
    THEN [s |-> s1, exc |-> Some(KeyError("refresh_token"))]
    ELSE LET s2 == [s1 EXCEPT !.refresh_token = Some(r.refresh_token)] IN
    IF "expires_in" \notin DOMAIN r
    THEN [s |-> s2, exc |-> Some(KeyError("expires_in"))]
    ELSE LET s3 == [s2 EXCEPT !.token_expiry = Some(r.expires_in)] IN
    IF ~stores_scope
    THEN [s |-> s3, exc |-> None]
    ELSE IF "scope" \notin DOMAIN r
    THEN [s |-> s3, exc |-> Some(KeyError("scope"))]
    ELSE [s |-> [s3 EXCEPT !.scope = Some(r.scope)], exc |-> None]

\* the four assignments from result["result"], in source order; a missing key
\* raises KeyError and leaves the assignments before it in place
StoreResult(s, r, t, stores_scope) ==
    IF "access_token" \notin DOMAIN r
    THEN [s |-> s, exc |-> Some(KeyError("access_token"))]
    ELSE LET s1 == [s EXCEPT !.access_token = Some(r.access_token)] IN
    IF "refresh_token" \notin DOMAIN r
    THEN [s |-> s1, exc |-> Some(KeyError("refresh_token"))]
    ELSE LET s2 == [s1 EXCEPT !.refresh_token = Some(r.refresh_token)] IN
    IF "expires_in" \notin DOMAIN r
    THEN [s |-> s2, exc |-> Some(KeyError("expires_in"))]
    ELSE LET s3 == [s2 EXCEPT !.token_expiry = Some(t + r.expires_in)] IN
    IF ~stores_scope
    THEN [s |-> s3, exc |-> None]
    ELSE IF "scope" \notin DOMAIN r
    THEN [s |-> s3, exc |-> Some(KeyError("scope"))]
    ELSE [s |-> [s3 EXCEPT !.scope = Some(r.scope)], exc |-> None]

\* a plausible slip: a failed grant drops the refresh token
GrantHandler_clearing(s, lg, cid, log, req, g, e) ==
    LET log1 == IF lg /\ ~IsInstanceOfType(e)
                THEN log_auth(lg, log,
                        AuthEntry(g.fail_event, Some(cid), Some(g.method), g.scope_requested,
                                  None, None, None, Some(CredentialsSource), "error",
                                  Some(format_error(Some(e), None, None, e.status_code)),
                                  Some("public/auth")))
                ELSE log
    IN Effect([s EXCEPT !.refresh_token = None], log1, <<req>>, Some(e), None)

\* a plausible slip: the except clause sends the request once more before giving up
GrantHandler_retry(s, lg, cid, log, req, g, e) ==
    LET log1 == IF lg /\ ~IsInstanceOfType(e)
                THEN log_auth(lg, log,
                        AuthEntry(g.fail_event, Some(cid), Some(g.method), g.scope_requested,
                                  None, None, None, Some(CredentialsSource), "error",
                                  Some(format_error(Some(e), None, None, e.status_code)),
                                  Some("public/auth")))
                ELSE log
    IN Effect(s, log1, <<req, req>>, Some(e), None)

\* the except clause shared by the three grant calls: one more auth line unless
\* the isinstance test holds, then re-raise
GrantHandler(s, lg, cid, log, req, g, e) ==
    LET log1 == IF lg /\ ~IsInstanceOfType(e)
                THEN log_auth(lg, log,
                        AuthEntry(g.fail_event, Some(cid), Some(g.method), g.scope_requested,
                                  None, None, None, Some(CredentialsSource), "error",
                                  Some(format_error(Some(e), None, None, e.status_code)),
                                  Some("public/auth")))
                ELSE log
    IN Effect(s, log1, <<req>>, Some(e), None)

\* the try block shared by the three grant calls
GrantFlow(s, t, lg, cid, log, req, r, g) ==
    IF ~IsNone(r.exc)
    THEN GrantHandler(s, lg, cid, log, req, g, TransportExc(Val(r.exc), req))
    ELSE IF "result" \in DOMAIN r.body
    THEN LET st == StoreResult(s, r.body.result, t, g.stores_scope) IN
         IF ~IsNone(st.exc)
         THEN GrantHandler(st.s, lg, cid, log, req, g, Val(st.exc))
         ELSE Effect(st.s,
                     log_auth(lg, log,
                        AuthEntry(g.ok_event, Some(cid), Some(g.method), g.scope_requested,
                                  IF g.stores_scope THEN st.s.scope ELSE None,
                                  Some(r.body.result.expires_in), st.s.access_token,
                                  Some(CredentialsSource), "success", None,
                                  Some("public/auth"))),
                     <<req>>, None, Some(r.body.result))
    ELSE LET error == Exc("Exception", <<g.fail_text>> \o ReprBody(r.body), None) IN
         IF ~lg
         THEN GrantHandler(s, lg, cid, log, req, g, error)
         ELSE IF "error" \in DOMAIN r.body /\ r.body.error.t # "dict"
         THEN GrantHandler(s, lg, cid, log, req, g,
                  Exc("AttributeError", <<"'str' object has no attribute 'get'">>, None))
         ELSE LET code == IF "error" \in DOMAIN r.body THEN Some(r.body.error.code) ELSE None
                  msg == IF "error" \in DOMAIN r.body THEN Some(r.body.error.message) ELSE None
                  log1 == log_auth(lg, log,
                            AuthEntry(g.fail_event, Some(cid), Some(g.method), g.scope_requested,
                                      None, None, None, Some(CredentialsSource), "error",
                                      Some(format_error(Some(error), code, msg, Some(200))),
                                      Some("public/auth")))
              IN GrantHandler(s, lg, cid, log1, req, g, error)

Request(method, params, headers) == [method |-> method, params |-> params, headers |-> headers]

authenticate_credentials(s, t, lg, cid, secret, scope_requested, r) ==
    GrantFlow(s, t, lg, cid, <<>>,
              Request("public/auth",
                      << <<"grant_type", <<"client_credentials">> >>,
                         <<"client_id", cid>>,
                         <<"client_secret", secret>>,
                         <<"scope", <<scope_requested>> >> >>,
                      None),
              r,
              [method |-> "client_credentials", ok_event |-> "auth_credentials",
               fail_event |-> "auth_failure", scope_requested |-> Some(scope_requested),
               stores_scope |-> TRUE, fail_text |-> "Authentication failed: "])

Nonces == { <<"n", "0", "n", "c", "e", "0", "0", "1">>, <<"z", "9", "n", "c", "e", "0", "0", "2">> }

\* the data argument of authenticate_signature: its default and a given text
Datas == { <<>>, <<"d", "1">> }

\* hexdigest of the keyed hash: a deterministic, injective image of (key, msg)
\* that shows no character of the key or of the message
HexDigest(key, msg) ==
    <<"hmac-sha256:">> \o [i \in 1..Len(key) |-> "#" \o key[i]]
                       \o <<"/">> \o [i \in 1..Len(msg) |-> "#" \o msg[i]]

\* a plausible slip: the nonce is signed before the timestamp
_calculate_signature_reordered(secret, timestamp, nonce, data) ==
    LET string_to_sign == nonce \o <<"\n", ToString(timestamp), "\n">> \o data
    IN HexDigest(secret, string_to_sign)

_calculate_signature(secret, timestamp, nonce, data) ==
    LET string_to_sign == <<ToString(timestamp), "\n">> \o nonce \o <<"\n">> \o data
    IN HexDigest(secret, string_to_sign)

authenticate_signature(s, t, lg, cid, secret, scope_requested, data, nonce, r) ==
    LET timestamp == t * 1000 IN
    GrantFlow(s, t, lg, cid, <<>>,
              Request("public/auth",
                      << <<"grant_type", <<"client_signature">> >>,
                         <<"client_id", cid>>,
                         <<"timestamp", <<ToString(timestamp)>> >>,
                         <<"nonce", nonce>>,
                         <<"data", data>>,
                         <<"signature", _calculate_signature(secret, timestamp, nonce, data)>>,
                         <<"scope", <<scope_requested>> >> >>,
                      None),
              r,
              [method |-> "client_signature", ok_event |-> "auth_signature",
               fail_event |-> "auth_failure", scope_requested |-> Some(scope_requested),
               stores_scope |-> TRUE, fail_text |-> "Authentication failed: "])

\* Python truthiness of an Optional[str]
Falsy(o) == IsNone(o) \/ Val(o) = <<>>

\* the fields of the refresh grant
RefreshGrant ==
    [method |-> "refresh_token", ok_event |-> "token_refresh",
     fail_event |-> "token_refresh", scope_requested |-> None,
     stores_scope |-> FALSE, fail_text |-> "Token refresh failed: "]

refresh_access_token_unguarded(s, t, lg, cid, log, r) ==
    GrantFlow(s, t, lg, cid, log,
              Request("public/auth",
                      << <<"grant_type", <<"refresh_token">> >>,
                         <<"refresh_token", IF IsNone(s.refresh_token) THEN <<"None">>
                                            ELSE Val(s.refresh_token)>> >>,
                      None),
              r, RefreshGrant)

refresh_access_token(s, t, lg, cid, log, r) ==
    IF Falsy(s.refresh_token)
    THEN Effect(s, log, <<>>,
                Some(Exc("Exception", <<"No refresh token available. Authenticate first.">>, None)),
                None)
    ELSE GrantFlow(s, t, lg, cid, log,
              Request("public/auth",
                      << <<"grant_type", <<"refresh_token">> >>,
                         <<"refresh_token", Val(s.refresh_token)>> >>,
                      None),
              r, RefreshGrant)

BufferSeconds == 60

is_token_valid_inclusive(s, t, buffer_seconds) ==
    IF Falsy(s.access_token) \/ IsNone(s.token_expiry) \/ s.token_expiry = Some(0)
    THEN FALSE
    ELSE t <= Val(s.token_expiry) - buffer_seconds

\* a plausible slip: the buffer is ignored and only a token past its expiry is
\* refreshed
is_token_valid_unbuffered(s, t, buffer_seconds) ==
    IF Falsy(s.access_token) \/ IsNone(s.token_expiry) \/ s.token_expiry = Some(0)
    THEN FALSE
    ELSE t < Val(s.token_expiry)

is_token_valid(s, t, buffer_seconds) ==
    IF Falsy(s.access_token) \/ IsNone(s.token_expiry) \/ s.token_expiry = Some(0)
    THEN FALSE
    ELSE t < Val(s.token_expiry) - buffer_seconds

\* a plausible slip: a token found expired is dropped and the fact is logged
is_token_valid_call_clearing(s, t, lg, cid, buffer_seconds) ==
    IF is_token_valid(s, t, buffer_seconds)
    THEN Effect(s, <<>>, <<>>, None, Some(TRUE))
    ELSE Effect([s EXCEPT !.access_token = None, !.token_expiry = None],
                log_auth(lg, <<>>,
                    AuthEntry("token_expired", Some(cid), None, None, None, None,
                              s.access_token, None, "success", None, None)),
                <<>>, None, Some(FALSE))

\* what a call of is_token_valid does: it returns the answer and nothing else
is_token_valid_call(s, t, lg, cid, buffer_seconds) ==
    Effect(s, <<>>, <<>>, None, Some(is_token_valid(s, t, buffer_seconds)))

\* the header map get_headers returns
Headers(s) ==
    [Authorization |-> <<"Bearer ">> \o (IF IsNone(s.access_token) THEN <<"None">>
                                         ELSE Val(s.access_token)),
     ContentType |-> "application/json"]

\* a plausible slip: the header is built before the refresh and returned after it
RefreshForHeaders_stale(s, t, lg, cid, r) ==
    LET log1 == log_auth(lg, <<>>,
                    AuthEntry("token_expired", Some(cid), None, None, None, None,
                              s.access_token, None, "success", None, None))
        eff == refresh_access_token(s, t, lg, cid, log1, r)
    IN IF ~IsNone(eff.exc) THEN eff
       ELSE Effect(eff.s, eff.auth, eff.reqs, None, Some(Headers(s)))

\* the refresh get_headers starts: a token_expired line, then refresh_access_token
RefreshForHeaders(s, t, lg, cid, r) ==
    LET log1 == log_auth(lg, <<>>,
                    AuthEntry("token_expired", Some(cid), None, None, None, None,
                              s.access_token, None, "success", None, None))
        eff == refresh_access_token(s, t, lg, cid, log1, r)
    IN IF ~IsNone(eff.exc) THEN eff
       ELSE Effect(eff.s, eff.auth, eff.reqs, None, Some(Headers(eff.s)))

get_headers_eager(s, t, lg, cid, r) ==
    IF ~Falsy(s.refresh_token)
    THEN RefreshForHeaders(s, t, lg, cid, r)
    ELSE IF is_token_valid(s, t, BufferSeconds)
    THEN Effect(s, <<>>, <<>>, None, Some(Headers(s)))
    ELSE Effect(s, <<>>, <<>>,
                Some(Exc("Exception", <<"Token expired and no refresh token available">>, None)),
                None)

get_headers_lenient(s, t, lg, cid, r) ==
    IF is_token_valid(s, t, BufferSeconds) \/ Falsy(s.refresh_token)
    THEN Effect(s, <<>>, <<>>, None, Some(Headers(s)))
    ELSE RefreshForHeaders(s, t, lg, cid, r)

get_headers(s, t, lg, cid, r) ==
    IF is_token_valid(s, t, BufferSeconds)
    THEN Effect(s, <<>>, <<>>, None, Some(Headers(s)))
    ELSE IF ~Falsy(s.refresh_token)
    THEN RefreshForHeaders(s, t, lg, cid, r)
    ELSE Effect(s, <<>>, <<>>,
                Some(Exc("Exception", <<"Token expired and no refresh token available">>, None)),
                None)

-----------------------------------------------------------------------------
(* Responses of the authentication endpoint *)

FullResults ==
    { [access_token |-> tok, refresh_token |-> RefreshTokenOf(tok),
       expires_in |-> e, scope |-> DefaultScope] : tok \in AccessTokens, e \in ExpiresIns }

\* result objects that lack a key
PartialResults ==
    { [access_token |-> LongToken, expires_in |-> 120, scope |-> DefaultScope],
      [access_token |-> LongToken, refresh_token |-> RefreshTokenOf(LongToken), scope |-> DefaultScope],
      [access_token |-> LongToken, refresh_token |-> RefreshTokenOf(LongToken), expires_in |-> 120] }

\* a result object whose refresh_token is the empty string
UnrefreshableResults ==
    { [access_token |-> ShortToken, refresh_token |-> <<>>, expires_in |-> 30,
       scope |-> DefaultScope] }

AuthBodies ==
    { [jsonrpc |-> "2.0", result |-> res] :
         res \in FullResults \cup PartialResults \cup UnrefreshableResults }
    \cup { [jsonrpc |-> "2.0", result |-> res, error |-> ErrDict] : res \in {CHOOSE f \in FullResults : f.expires_in = 120 /\ f.access_token = LongToken} }
    \cup { [jsonrpc |-> "2.0", error |-> ErrDict],
           [jsonrpc |-> "2.0", error |-> ErrStr],
           [jsonrpc |-> "2.0"] }

Response(exc, body) == [exc |-> exc, body |-> body]

AuthResponses ==
    { Response(Some(k), [jsonrpc |-> "2.0"]) : k \in TransportKinds }
    \cup { Response(None, b) : b \in AuthBodies }

-----------------------------------------------------------------------------
(* DeribitLogger: trade and api streams *)

\* dict.get(key) on a dict held as a function
Get(d, key) == IF key \in DOMAIN d THEN Some(d[key]) ELSE None

\* API results are typed values (t is the Python type name): a dict, a list or
\* an integer
DictResult(d) == [t |-> "dict", v |-> d]
ListResult(l) == [t |-> "list", v |-> l]
NumResult(n) == [t |-> "int", v |-> n]

\* Python truthiness of a result
Truthy(res) ==
    CASE res.t = "dict" -> DOMAIN res.v # {}
      [] res.t = "list" -> res.v # <<>>
      [] OTHER -> res.v # 0

\* log_trade: the line it writes, or the exception it raises before writing
\* (response.get on a value that is not a dict)
log_trade(action, request_params, api_method, response, error) ==
    IF ~IsNone(response) /\ Truthy(Val(response)) /\ Val(response).t # "dict"
    THEN [exc |-> Some(Exc("AttributeError",
                           <<"'", Val(response).t, "' object has no attribute 'get'">>, None)),
          entry |-> None]
    ELSE LET summary ==
                 IF ~IsNone(response) /\ Truthy(Val(response))
                 THEN LET resp == Val(response).v
                          order == IF "order" \in DOMAIN resp THEN resp.order ELSE resp
                      IN Some([order_id |-> Get(order, "order_id"),
                               order_state |-> Get(order, "order_state"),
                               direction |-> Get(order, "direction"),
                               filled_amount |-> Get(order, "filled_amount"),
                               average_price |-> Get(order, "average_price"),
                               commission |-> Get(order, "commission"),
                               raw_response |-> Val(response)])
                 ELSE None
         IN [exc |-> None,
             entry |-> Some([action |-> action,
                             status |-> IF ~IsNone(error) THEN "error" ELSE "success",
                             request |-> request_params,
                             response |-> summary,
                             error |-> error,
                             api_method |-> api_method])]

\* log_api: the line it writes
log_api(event, api_method, request_params, response, error) ==
    [event |-> event,
     status |-> IF ~IsNone(error) THEN "error" ELSE "success",
     api_method |-> api_method,
     params |-> request_params,
     response |-> IF ~IsNone(response) /\ Truthy(Val(response))
                  THEN Some([result_count |-> IF Val(response).t = "list"
                                              THEN Len(Val(response).v) ELSE 1,
                             raw_response |-> Val(response)])
                  ELSE None,
     error |-> error]

-----------------------------------------------------------------------------
(* DeribitTrader *)

_TRADE_METHODS ==
    {"private/buy", "private/sell", "private/cancel", "private/edit",
     "private/close_position", "private/cancel_all",
     "private/cancel_all_by_currency", "private/cancel_all_by_instrument"}

\* _API_EVENT_NAMES.get(method, method)
ApiEventName(method) ==
    CASE method = "private/get_account_summary" -> "account_summary"
      [] method = "private/get_positions" -> "get_positions"
      [] method \in {"private/get_open_orders_by_currency",
                     "private/get_open_orders_by_instrument"} -> "get_open_orders"
      [] method = "private/get_subaccounts" -> "get_subaccounts"
      [] method \in {"private/get_user_trades_by_currency",
                     "private/get_user_trades_by_instrument"} -> "get_user_trades"
      [] method = "public/get_instruments" -> "get_instruments"
      [] method = "public/get_order_book" -> "get_order_book"
      [] method = "public/ticker" -> "get_ticker"
      [] OTHER -> method

\* _TRADE_ACTION_NAMES.get(method, method)
TradeActionName(method) ==
    CASE method = "private/buy" -> "buy"
      [] method = "private/sell" -> "sell"
      [] method = "private/cancel" -> "cancel"
      [] method = "private/edit" -> "edit"
      [] method = "private/close_position" -> "close_position"
      [] method \in {"private/cancel_all", "private/cancel_all_by_currency",
                     "private/cancel_all_by_instrument"} -> "cancel_all"
      [] OTHER -> method

\* a plausible slip: every dispatch asks the session for a header
IsPrivate_always(method) == TRUE

\* method.startswith("private/")
IsPrivate(method) ==
    method \in _TRADE_METHODS
              \cup {"private/get_account_summary", "private/get_positions",
                    "private/get_open_orders_by_currency",
                    "private/get_open_orders_by_instrument", "private/get_subaccounts",
                    "private/get_user_trades_by_currency",
                    "private/get_user_trades_by_instrument"}

\* what _make_request did: as Effect, with the trade and api lines it appended
\* and the headers it obtained
DispatchEffect(s, auth, trades, api, reqs, exc, value, headers) ==
    [s |-> s, auth |-> auth, trades |-> trades, api |-> api, reqs |-> reqs,
     exc |-> exc, value |-> value, headers |-> headers]

AlreadyLogged_never(e) == FALSE

\* a plausible slip: the prefix test knows the API error only
AlreadyLogged_api_only(e) == StartsWith(e.message, <<"API Error:">>)

\* str(e).startswith(("API Error:", "Unexpected response:"))
AlreadyLogged(e) ==
    \/ StartsWith(e.message, <<"API Error:">>)
    \/ StartsWith(e.message, <<"Unexpected response:">>)

\* one error line on the stream of the method (never raises: response is None)
LogError(lg, is_trade, method, params, trades, api, error_dict) ==
    IF ~lg THEN [trades |-> trades, api |-> api]
    ELSE IF is_trade
    THEN [trades |-> Append(trades, Val(log_trade(TradeActionName(method), params, method,
                                                  None, Some(error_dict)).entry)),
          api |-> api]
    ELSE [trades |-> trades,
          api |-> Append(api, log_api("api_error", method, params, None, Some(error_dict)))]

\* the except clause of _make_request
DispatchHandler(h, lg, is_trade, method, params, trades, api, req, e) ==
    LET logs == IF lg /\ ~AlreadyLogged(e)
                THEN LogError(lg, is_trade, method, params, trades, api,
                              format_error(Some(e), None, None, e.status_code))
                ELSE [trades |-> trades, api |-> api]
    IN DispatchEffect(h.s, h.auth, logs.trades, logs.api, h.reqs \o <<req>>,
                      Some(e), None, h.value)

\* the try block of _make_request, after the headers h were obtained
DispatchTry(h, lg, method, params, r) ==
    LET is_trade == method \in _TRADE_METHODS
        req == Request(method, params, h.value)
    IN
    IF ~IsNone(r.exc)
    THEN DispatchHandler(h, lg, is_trade, method, params, <<>>, <<>>, req,
                         TransportExc(Val(r.exc), req))
    ELSE IF "result" \in DOMAIN r.body
    THEN LET api_result == r.body.result IN
         IF ~lg
         THEN DispatchEffect(h.s, h.auth, <<>>, <<>>, h.reqs \o <<req>>, None,
                             Some(api_result), h.value)
         ELSE IF is_trade
         THEN LET w == log_trade(TradeActionName(method), params, method,
                                 Some(api_result), None) IN
              IF ~IsNone(w.exc)
              THEN DispatchHandler(h, lg, is_trade, method, params, <<>>, <<>>, req, Val(w.exc))
              ELSE DispatchEffect(h.s, h.auth, <<Val(w.entry)>>, <<>>, h.reqs \o <<req>>,
                                  None, Some(api_result), h.value)
         ELSE DispatchEffect(h.s, h.auth, <<>>,
                             <<log_api(ApiEventName(method), method, params,
                                       Some(api_result), None)>>,
                             h.reqs \o <<req>>, None, Some(api_result), h.value)
    ELSE IF "error" \in DOMAIN r.body
    THEN LET api_error == r.body.error
             error == Exc("Exception", <<"API Error:", " ">> \o ReprErr(api_error), None)
             error_dict == format_error(Some(error),
                              IF api_error.t = "dict" THEN Some(api_error.code) ELSE None,
                              IF api_error.t = "dict" THEN Some(api_error.message)
                              ELSE Some(api_error.v),
                              Some(200))
             logs == LogError(lg, is_trade, method, params, <<>>, <<>>, error_dict)
         IN DispatchHandler(h, lg, is_trade, method, params, logs.trades, logs.api, req, error)
    ELSE LET error == Exc("Exception", <<"Unexpected response:", " ">> \o ReprBody(r.body), None)
             error_dict == format_error(Some(error), None, None, Some(200))
             logs == LogError(lg, is_trade, method, params, <<>>, <<>>, error_dict)
         IN DispatchHandler(h, lg, is_trade, method, params, logs.trades, logs.api, req, error)

\* _make_request(method, params); rr answers the refresh get_headers may send,
\* r answers the request itself
_make_request(s, t, lg, cid, method, params, rr, r) ==
    CHOOSE eff \in
        { IF ~IsNone(h.exc)
          THEN DispatchEffect(h.s, h.auth, <<>>, <<>>, h.reqs, h.exc, None, None)
          ELSE DispatchTry(h, lg, method, params, r) :
            h \in { IF IsPrivate(method) THEN get_headers(s, t, lg, cid, rr)
                    ELSE Effect(s, <<>>, <<>>, None, None) } } : TRUE

-----------------------------------------------------------------------------
(* Methods dispatched and the responses of their endpoints *)

Methods ==
    {"private/buy", "private/cancel_all", "private/get_positions", "public/ticker"}

RequestParams(method) ==
    CASE method = "private/buy" ->
           << <<"instrument_name", <<"BTC-PERPETUAL">> >>, <<"amount", <<"10">> >>,
              <<"type", <<"market">> >> >>
      [] method = "private/cancel_all" -> <<>>
      [] method = "private/get_positions" -> << <<"currency", <<"BTC">> >> >>
      [] OTHER -> << <<"instrument_name", <<"BTC-PERPETUAL">> >> >>

Order(state) ==
    [order_id |-> "ETH-331562", order_state |-> state, direction |-> "buy",
     filled_amount |-> 10]

\* the result shapes each endpoint returns
ApiResults(method) ==
    CASE method = "private/buy" -> { DictResult([order |-> Order("filled"), trades |-> <<>>]) }
      [] method = "private/cancel_all" -> { NumResult(0), NumResult(3) }
      [] method = "private/get_positions" ->
           { ListResult(<<>>), ListResult(<<"BTC-PERPETUAL", "BTC-27DEC24">>) }
      [] OTHER -> { DictResult([instrument_name |-> "BTC-PERPETUAL", last_price |-> 42000]) }

ApiBodies(method) ==
    { [jsonrpc |-> "2.0", result |-> res] : res \in ApiResults(method) }
    \cup { [jsonrpc |-> "2.0", result |-> res, error |-> ErrDict] :
              res \in {CHOOSE x \in ApiResults(method) : Truthy(x)} }
    \cup { [jsonrpc |-> "2.0", error |-> ErrDict],
           [jsonrpc |-> "2.0", error |-> ErrStr],
           [jsonrpc |-> "2.0"] }

ApiResponses(method) ==
    { Response(Some(k), [jsonrpc |-> "2.0"]) : k \in TransportKinds }
    \cup { Response(None, b) : b \in ApiBodies(method) }

-----------------------------------------------------------------------------
(* CredentialsManager and the sources of credentials *)

\* a credential value is a text; the empty text stands for None and for "",
\* which Python's truth test does not tell apart
NoText == <<>>

Pair(id, secret) == [client_id |-> id, client_secret |-> secret]

\* self.client_id and self.client_secret
Both(p) == p.client_id # NoText /\ p.client_secret # NoText

\* each source holds values of its own, so a value tells where it came from
IdOf(source) == <<source, "-", "i", "d", "7">>
SecretOf(source) == <<source, "-", "k", "e", "y">>

\* what a source may hold: nothing, one of the two values, or both
Holdings(source) ==
    { Pair(id, secret) : id \in {NoText, IdOf(source)}, secret \in {NoText, SecretOf(source)} }

\* a file that may be missing; a .env file assigns only the keys it names, so
\* each of its two keys is absent (None) or names a value, possibly empty
JsonFiles ==
    { [exists |-> FALSE, client_id |-> NoText, client_secret |-> NoText] }
    \cup { [exists |-> TRUE, client_id |-> h.client_id, client_secret |-> h.client_secret] :
             h \in Holdings("json") }

DotenvFiles ==
    { [exists |-> FALSE, client_id |-> None, client_secret |-> None] }
    \cup { [exists |-> TRUE, client_id |-> id, client_secret |-> secret] :
             id \in {None, Some(NoText), Some(IdOf("dotenv"))},
             secret \in {None, Some(NoText), Some(SecretOf("dotenv"))} }

\* the constructor's arguments and everything it can read: manager is
\* CREDENTIALS_MANAGER_AVAILABLE, json the credentials file, env the process
\* environment, dotenv the .env file
Environs ==
    [manager : BOOLEAN, direct : Holdings("direct"), json : JsonFiles,
     env : Holdings("env"), dotenv : DotenvFiles]

\* the environment of DeribitAuth(client_id, client_secret)
DirectEnviron(id, secret) ==
    [manager |-> TRUE, direct |-> Pair(id, secret),
     json |-> [exists |-> FALSE, client_id |-> NoText, client_secret |-> NoText],
     env |-> Pair(NoText, NoText),
     dotenv |-> [exists |-> FALSE, client_id |-> None, client_secret |-> None]]

\* the load_from_* methods: the manager's fields after the call and the flag
\* returned.  A file that cannot be parsed answers like a file without keys:
\* load_from_env overwrites both fields whatever load_from_json left.
Loaded(m) == [ok |-> Both(m), m |-> m]

load_from_json(m, e) ==
    IF ~e.json.exists THEN [ok |-> FALSE, m |-> m]
    ELSE Loaded(Pair(e.json.client_id, e.json.client_secret))

load_from_env(m, e) == Loaded(Pair(e.env.client_id, e.env.client_secret))

load_from_dotenv(m, e) ==
    IF ~e.dotenv.exists THEN [ok |-> FALSE, m |-> m]
    ELSE Loaded(Pair(IF IsNone(e.dotenv.client_id) THEN m.client_id
                     ELSE Val(e.dotenv.client_id),
                     IF IsNone(e.dotenv.client_secret) THEN m.client_secret
                     ELSE Val(e.dotenv.client_secret)))

\* CredentialsManager.load(interactive=False)
load(e) ==
    LET j == load_from_json(Pair(NoText, NoText), e) IN
    IF j.ok THEN j.m
    ELSE LET v == load_from_env(j.m, e) IN
    IF v.ok THEN v.m
    ELSE LET d == load_from_dotenv(v.m, e) IN
    IF d.ok THEN d.m
    ELSE Pair(NoText, NoText)

CredentialsRequired ==
    Exc("ValueError", <<"Credentials required! Provide them via:", "..." >>, None)

\* DeribitAuth.__init__: the credentials it settles on, the source tag, the
\* exception it raises (or None) and the auth lines it wrote
Resolved(creds, source, lg) ==
    IF ~Both(creds)
    THEN [creds |-> creds, source |-> source, exc |-> Some(CredentialsRequired), auth |-> <<>>]
    ELSE [creds |-> creds, source |-> source, exc |-> None,
          auth |-> log_auth(lg, <<>>,
                      AuthEntry("session_start", Some(creds.client_id), None, None, None,
                                None, None, source, "success", None, None))]

__init__(e, lg) ==
    IF Both(e.direct)
    THEN Resolved(e.direct, Some("direct_parameters"), lg)
    ELSE IF e.manager
    THEN LET creds == load(e) IN
         Resolved(creds,
                  IF ~Both(creds) THEN None
                  ELSE IF e.json.exists THEN Some("json_file:credentials.json")
                  ELSE IF e.env.client_id # NoText THEN Some("environment_variables")
                  ELSE IF e.dotenv.exists THEN Some("dotenv_file")
                  ELSE Some("credentials_manager"),
                  lg)
    ELSE LET creds == Pair(IF e.direct.client_id # NoText THEN e.direct.client_id
                           ELSE e.env.client_id,
                           IF e.direct.client_secret # NoText THEN e.direct.client_secret
                           ELSE e.env.client_secret)
         IN Resolved(creds, IF Both(creds) THEN Some("environment_variables") ELSE None, lg)

-----------------------------------------------------------------------------
(* DeribitLogger: threads and files *)

\* the threads that share one DeribitLogger
Threads == {"t1", "t2"}

Categories == {"auth", "trades", "api"}

Days == 0..MaxDay

\* f"{category}_{self._today_stamp()}.jsonl"
FileName(category, stamp) == [category |-> category, stamp |-> stamp]
FileNames == { FileName(c, d) : c \in Categories, d \in Days }

\* line + "\n" reaches the file in two pieces, the second ending with the
\* newline: a buffered write may take more than one write of the file system
Chunk(log_id, part) == [log_id |-> log_id, part |-> part]

\* a thread outside any log call
Idle(calls) ==
    [pc |-> "idle", category |-> "", log_id |-> <<"", 0>>, timestamp |-> 0,
     file |-> FileName("", 0), calls |-> calls]

\* the log calls started so far, by their log_id (str(uuid.uuid4()): fresh)
Started == UNION { { <<t, k>> : k \in 1..threads[t].calls } : t \in Threads }

\* with self._lock: entered only while no thread holds the lock
CanAcquire_always(l) == TRUE

CanAcquire(l) == IsNone(l)

\* open(filepath, "a"): what the file holds once opened
OpenFile_truncate(content) == <<>>

OpenFile(content) == content

\* log_auth / log_trade / log_api up to the call of _write_entry: a fresh
\* log_id and the timestamp; log_trade raises before that when the response
\* is truthy and not a dict
LogCall(t) ==
    /\ threads[t].pc = "idle"
    /\ Cardinality(Started) < MaxCalls
    /\ \E category \in Categories :
       \E response \in IF category = "trades"
                       THEN {None, Some(DictResult([order_id |-> "ETH-331562"])),
                             Some(NumResult(3))}
                       ELSE {None} :
       \E w \in { log_trade("buy", <<>>, "private/buy", response, None) } :
          threads' = [threads EXCEPT ![t] =
                         IF category = "trades" /\ ~IsNone(w.exc)
                         THEN Idle(@.calls + 1)
                         ELSE [pc |-> "stamp", category |-> category,
                               log_id |-> <<t, @.calls + 1>>, timestamp |-> today,
                               file |-> FileName("", 0), calls |-> @.calls + 1]]
    /\ UNCHANGED <<svars, cvars, rvars, today, lock, files, returned>>

\* _write_entry: filename and filepath from today's stamp, line = json.dumps(entry)
Stamp(t) ==
    /\ threads[t].pc = "stamp"
    /\ threads' = [threads EXCEPT ![t].pc = "acquire",
                                  ![t].file = FileName(threads[t].category, today)]
    /\ UNCHANGED <<svars, cvars, rvars, today, lock, files, returned>>

\* with self._lock:
Acquire(t) ==
    /\ threads[t].pc = "acquire"
    /\ CanAcquire(lock)
    /\ lock' = Some(t)
    /\ threads' = [threads EXCEPT ![t].pc = "open"]
    /\ UNCHANGED <<svars, cvars, rvars, today, files, returned>>

\* with open(filepath, "a") as f:
Open(t) ==
    /\ threads[t].pc = "open"
    /\ files' = [files EXCEPT ![threads[t].file] = OpenFile(@)]
    /\ threads' = [threads EXCEPT ![t].pc = "write"]
    /\ UNCHANGED <<svars, cvars, rvars, today, lock, returned>>

\* f.write(line + "\n"): the first piece reaches the end of the file
WriteHead(t) ==
    /\ threads[t].pc = "write"
    /\ files' = [files EXCEPT ![threads[t].file] = Append(@, Chunk(threads[t].log_id, "head"))]
    /\ threads' = [threads EXCEPT ![t].pc = "flush"]
    /\ UNCHANGED <<svars, cvars, rvars, today, lock, returned>>

\* the file is closed: the rest of the line and the newline reach its end
WriteTail(t) ==
    /\ threads[t].pc = "flush"
    /\ files' = [files EXCEPT ![threads[t].file] = Append(@, Chunk(threads[t].log_id, "tail"))]
    /\ threads' = [threads EXCEPT ![t].pc = "release"]
    /\ UNCHANGED <<svars, cvars, rvars, today, lock, returned>>

\* the with self._lock block is left
Release(t) ==
    /\ threads[t].pc = "release"
    /\ lock' = None
    /\ threads' = [threads EXCEPT ![t].pc = "return"]
    /\ UNCHANGED <<svars, cvars, rvars, today, files, returned>>

\* return log_id
Return(t) ==
    /\ threads[t].pc = "return"
    /\ returned' = returned \cup { [log_id |-> threads[t].log_id,
                                    category |-> threads[t].category] }
    /\ threads' = [threads EXCEPT ![t] = Idle(@.calls)]
    /\ UNCHANGED <<svars, cvars, rvars, today, lock, files>>

\* the UTC day changes
Midnight ==
    /\ today < MaxDay
    /\ today' = today + 1
    /\ UNCHANGED <<svars, cvars, rvars, lock, files, threads, returned>>

\* a new DeribitLogger on an empty log directory, no thread inside a call
LoggerIdle ==
    /\ today = 0
    /\ lock = None
    /\ files = [f \in FileNames |-> <<>>]
    /\ threads = [t \in Threads |-> Idle(0)]
    /\ returned = {}

\* a thread that has not called get_headers
Waiting ==
    [pc |-> "idle", observed |-> [access_token |-> None, token_expiry |-> None],
     sent |-> None, response |-> None]

\* no thread is inside get_headers and nothing has happened
CallersIdle ==
    /\ callers = [t \in Threads |-> Waiting]
    /\ trace = <<>>

-----------------------------------------------------------------------------
(* The state machine *)

Self == Session(access_token, refresh_token, token_expiry, scope)

\* the record of a call: auth_response answers the public/auth request the call
\* sent (if any), response answers the dispatched request (if any)
Call(op, method, auth_response, response, eff, headers) ==
    [op |-> op, method |-> method, auth_response |-> auth_response,
     response |-> response, requests |-> eff.reqs, raised |-> ~IsNone(eff.exc),
     exc |-> eff.exc, value |-> eff.value, headers |-> headers,
     buffer_seconds |-> None]

\* DeribitAuth(client_id, client_secret, logger=DeribitLogger()): the state
\* after __init__ with direct parameters and a logger attached
Init ==
    /\ client_id \in ClientIds
    /\ client_secret \in ClientSecrets
    /\ logger = TRUE
    /\ access_token = None
    /\ refresh_token = None
    /\ token_expiry = None
    /\ scope = None
    /\ now = 0
    /\ auth_log = log_auth(logger, <<>>,
                     AuthEntry("session_start", Some(client_id), None, None, None, None, None,
                               Some(CredentialsSource), "success", None, None))
    /\ trades_log = <<>>
    /\ api_log = <<>>
    /\ call = Call("__init__", None, None, None, Effect(Self, <<>>, <<>>, None, None), None)
    /\ environ = DirectEnviron(client_id, client_secret)
    /\ _credentials_source = Some(CredentialsSource)
    /\ LoggerIdle
    /\ CallersIdle

\* the session and auth stream after a DeribitAuth call
Apply(op, response, effect) ==
    \E eff \in {effect} :
    /\ access_token' = eff.s.access_token
    /\ refresh_token' = eff.s.refresh_token
    /\ token_expiry' = eff.s.token_expiry
    /\ scope' = eff.s.scope
    /\ auth_log' = eff.auth
    /\ trades_log' = <<>>
    /\ api_log' = <<>>
    /\ call' = Call(op, None, IF Len(eff.reqs) > 0 THEN Some(response) ELSE None, None, eff,
                     IF op = "get_headers" THEN eff.value ELSE None)
    /\ UNCHANGED <<client_id, client_secret, logger, now, cvars, lvars, rvars>>

\* the refresh get_headers sends is answered only when it is sent
NeedsRefresh(s, t) == ~is_token_valid(s, t, BufferSeconds) /\ ~Falsy(s.refresh_token)

RefreshResponses(needed) ==
    IF needed THEN AuthResponses ELSE { Response(None, [jsonrpc |-> "2.0"]) }

AuthenticateCredentials ==
    \E r \in AuthResponses :
        Apply("authenticate_credentials", r,
              authenticate_credentials(Self, now, logger, client_id, client_secret, DefaultScope, r))

AuthenticateSignature ==
    \E r \in AuthResponses, nonce \in Nonces, data \in Datas :
        Apply("authenticate_signature", r,
              authenticate_signature(Self, now, logger, client_id, client_secret,
                                     DefaultScope, data, nonce, r))

RefreshAccessToken ==
    \E r \in RefreshResponses(~Falsy(refresh_token)) :
        Apply("refresh_access_token", r,
              refresh_access_token(Self, now, logger, client_id, <<>>, r))

GetHeaders ==
    \E r \in RefreshResponses(NeedsRefresh(Self, now)) :
        Apply("get_headers", r, get_headers(Self, now, logger, client_id, r))

MakeRequest ==
    \E method \in Methods :
    \E rr \in RefreshResponses(IsPrivate(method) /\ NeedsRefresh(Self, now)) :
    \E h \in { IF IsPrivate(method) THEN get_headers(Self, now, logger, client_id, rr)
               ELSE Effect(Self, <<>>, <<>>, None, None) } :
    \E r \in IF ~IsNone(h.exc) THEN { Response(None, [jsonrpc |-> "2.0"]) }
             ELSE ApiResponses(method) :
    \E eff \in { _make_request(Self, now, logger, client_id, method,
                               RequestParams(method), rr, r) } :
        /\ access_token' = eff.s.access_token
        /\ refresh_token' = eff.s.refresh_token
        /\ token_expiry' = eff.s.token_expiry
        /\ scope' = eff.s.scope
        /\ auth_log' = eff.auth
        /\ trades_log' = eff.trades
        /\ api_log' = eff.api
        /\ call' = Call("_make_request", Some(method),
                        IF IsPrivate(method) /\ NeedsRefresh(Self, now) THEN Some(rr) ELSE None,
                        IF IsNone(h.exc) THEN Some(r) ELSE None,
                        eff, eff.headers)
        /\ UNCHANGED <<client_id, client_secret, logger, now, cvars, lvars, rvars>>

\* time passes between calls: no call has just returned any more
Tick ==
    /\ now + TickStep <= MaxTime
    /\ now' = now + TickStep
    /\ auth_log' = <<>>
    /\ trades_log' = <<>>
    /\ api_log' = <<>>
    /\ call' = Call("idle", None, None, None, Effect(Self, <<>>, <<>>, None, None), None)
    /\ UNCHANGED <<client_id, client_secret, logger, access_token, refresh_token,
                   token_expiry, scope, cvars, lvars, rvars>>

\* the buffers is_token_valid is called with; 60 is the default
Buffers == {0, 30, 60}

\* is_token_valid(buffer_seconds) as a call on the session
IsTokenValid ==
    \E b \in Buffers :
    \E eff \in { is_token_valid_call(Self, now, logger, client_id, b) } :
        /\ access_token' = eff.s.access_token
        /\ refresh_token' = eff.s.refresh_token
        /\ token_expiry' = eff.s.token_expiry
        /\ scope' = eff.s.scope
        /\ auth_log' = eff.auth
        /\ trades_log' = <<>>
        /\ api_log' = <<>>
        /\ call' = [Call("is_token_valid", None, None, None, eff, None)
                    EXCEPT !.buffer_seconds = Some(b)]
        /\ UNCHANGED <<client_id, client_secret, logger, now, cvars, lvars, rvars>>

Next ==
    \/ AuthenticateCredentials
    \/ AuthenticateSignature
    \/ RefreshAccessToken
    \/ IsTokenValid
    \/ GetHeaders
    \/ MakeRequest
    \/ Tick

Spec == Init /\ [][Next]_vars

-----------------------------------------------------------------------------
(* Construction: DeribitAuth(...) in every environment *)

\* before the constructor runs there is no session
ConstructInit ==
    /\ environ \in Environs
    /\ client_id = NoText
    /\ client_secret = NoText
    /\ _credentials_source = None
    /\ logger = TRUE
    /\ access_token = None
    /\ refresh_token = None
    /\ token_expiry = None
    /\ scope = None
    /\ now = 0
    /\ auth_log = <<>>
    /\ trades_log = <<>>
    /\ api_log = <<>>
    /\ call = Call("none", None, None, None, Effect(Self, <<>>, <<>>, None, None), None)
    /\ LoggerIdle
    /\ CallersIdle

\* DeribitAuth(client_id, client_secret, credentials_file, logger): returns
\* the session or raises
Construct ==
    /\ call.op = "none"
    /\ \E r \in { __init__(environ, logger) } :
        /\ client_id' = r.creds.client_id
        /\ client_secret' = r.creds.client_secret
        /\ _credentials_source' = r.source
        /\ auth_log' = r.auth
        /\ call' = Call("__init__", None, None, None,
                        Effect(Self, r.auth, <<>>, r.exc, None), None)
    /\ UNCHANGED <<environ, logger, access_token, refresh_token, token_expiry, scope, now,
                   trades_log, api_log, lvars, rvars>>

\* CredentialsManager(credentials_file).load(interactive=False) on its own:
\* returns the pair it settled on
Load ==
    /\ call.op = "none"
    /\ environ.manager
    /\ call' = Call("load", None, None, None,
                    Effect(Self, <<>>, <<>>, None, Some(load(environ))), None)
    /\ UNCHANGED <<client_id, client_secret, logger, access_token, refresh_token,
                   token_expiry, scope, now, auth_log, trades_log, api_log,
                   cvars, lvars, rvars>>

ConstructNext == Construct \/ Load

ConstructSpec == ConstructInit /\ [][ConstructNext]_vars

-----------------------------------------------------------------------------
(* One DeribitLogger called from several threads *)

LoggerInit ==
    /\ Init
    /\ client_id = <<"m", "y", "i", "d", "5">>

LoggerNext ==
    \/ \E t \in Threads : LogCall(t)
    \/ \E t \in Threads : Stamp(t)
    \/ \E t \in Threads : Acquire(t)
    \/ \E t \in Threads : Open(t)
    \/ \E t \in Threads : WriteHead(t)
    \/ \E t \in Threads : WriteTail(t)
    \/ \E t \in Threads : Release(t)
    \/ \E t \in Threads : Return(t)
    \/ Midnight

LoggerSpec == LoggerInit /\ [][LoggerNext]_vars

-----------------------------------------------------------------------------
(* One DeribitAuth whose get_headers is called from several threads *)

\* what a thread did, as it appears in trace: a line it wrote to the auth
\* stream, a request it sent, the header map it returned or the exception it
\* raised
Event(kind, t, line, request, headers, exc) ==
    [kind |-> kind, thread |-> t, line |-> line, request |-> request,
     headers |-> headers, exc |-> exc]

LineEvents(t, log) == [i \in DOMAIN log |-> Event("line", t, Some(log[i]), None, None, None)]

\* the answers the endpoint gives to a refresh request
RaceResponses ==
    { Response(None, [jsonrpc |-> "2.0", result |-> res]) :
         res \in { f \in FullResults : f.expires_in = 120 } }
    \cup { Response(None, [jsonrpc |-> "2.0", error |-> ErrDict]),
           Response(Some("Timeout"), [jsonrpc |-> "2.0"]) }

\* the expiry times of the token the session starts with
RaceExpiries == { 30, 120 }

\* an authenticated session at time 0, its token inside the buffer or not, its
\* refresh token held or empty
RaceInit ==
    /\ client_id = <<"u", "4">>
    /\ client_secret \in ClientSecrets
    /\ logger = TRUE
    /\ now = 0
    /\ auth_log = <<>>
    /\ trades_log = <<>>
    /\ api_log = <<>>
    /\ call = Call("none", None, None, None,
                   Effect(Session(None, None, None, None), <<>>, <<>>, None, None), None)
    /\ environ = DirectEnviron(client_id, client_secret)
    /\ _credentials_source = Some(CredentialsSource)
    /\ LoggerIdle
    /\ CallersIdle
    /\ \E res \in { r \in FullResults \cup UnrefreshableResults : r.access_token = ShortToken },
          e \in RaceExpiries :
          /\ res.expires_in = 30
          /\ access_token = Some(res.access_token)
          /\ refresh_token = Some(res.refresh_token)
          /\ token_expiry = Some(e)
          /\ scope = Some(res.scope)

\* what no step of get_headers touches
rframe ==
    <<client_id, client_secret, logger, scope, now, auth_log, trades_log, api_log, call,
      cvars, lvars>>

\* if not self.is_token_valid(): the thread reads access_token and token_expiry
CheckValid(t) ==
    /\ callers[t].pc = "idle"
    /\ callers' = [callers EXCEPT
                     ![t].observed = [access_token |-> access_token,
                                      token_expiry |-> token_expiry],
                     ![t].pc = IF is_token_valid(Self, now, BufferSeconds)
                               THEN "return" ELSE "branch"]
    /\ UNCHANGED <<access_token, refresh_token, token_expiry, trace, rframe>>

\* if self.refresh_token: the token_expired line; else: raise
LogExpired(t) ==
    /\ callers[t].pc = "branch"
    /\ IF ~Falsy(refresh_token)
       THEN /\ trace' = trace \o LineEvents(t,
                            log_auth(logger, <<>>,
                                AuthEntry("token_expired", Some(client_id), None, None, None,
                                          None, access_token, None, "success", None, None)))
            /\ callers' = [callers EXCEPT ![t].pc = "refresh"]
       ELSE /\ trace' = Append(trace,
                            Event("raise", t, None, None, None,
                                  Some(Exc("Exception",
                                           <<"Token expired and no refresh token available">>,
                                           None))))
            /\ callers' = [callers EXCEPT ![t].pc = "done"]
    /\ UNCHANGED <<access_token, refresh_token, token_expiry, rframe>>

\* refresh_access_token up to session.get: the refresh token is read and sent
SendRefresh(t) ==
    /\ callers[t].pc = "refresh"
    /\ IF Falsy(refresh_token)
       THEN /\ trace' = Append(trace,
                            Event("raise", t, None, None, None,
                                  Some(Exc("Exception",
                                           <<"No refresh token available. Authenticate first.">>,
                                           None))))
            /\ callers' = [callers EXCEPT ![t].pc = "done"]
       ELSE \E req \in { Request("public/auth",
                                  << <<"grant_type", <<"refresh_token">> >>,
                                     <<"refresh_token", Val(refresh_token)>> >>,
                                  None) } :
            /\ trace' = Append(trace, Event("request", t, None, Some(req), None, None))
            /\ callers' = [callers EXCEPT ![t].pc = "await", ![t].sent = Some(req)]
    /\ UNCHANGED <<access_token, refresh_token, token_expiry, rframe>>

\* the answer arrives: a result is kept for the assignments; anything else is
\* logged and raised as GrantFlow does, the session untouched
ReceiveRefresh(t) ==
    /\ callers[t].pc = "await"
    /\ \E r \in RaceResponses :
        IF IsNone(r.exc) /\ "result" \in DOMAIN r.body
        THEN /\ callers' = [callers EXCEPT ![t].pc = "store_access",
                                           ![t].response = Some(r.body.result)]
             /\ UNCHANGED trace
        ELSE \E eff \in { GrantFlow(Self, now, logger, client_id, <<>>,
                                    Val(callers[t].sent), r, RefreshGrant) } :
             /\ trace' = trace \o LineEvents(t, eff.auth)
                                \o <<Event("raise", t, None, None, None, eff.exc)>>
             /\ callers' = [callers EXCEPT ![t].pc = "done"]
    /\ UNCHANGED <<access_token, refresh_token, token_expiry, rframe>>

\* self.access_token = result["result"]["access_token"]
StoreAccessToken(t) ==
    /\ callers[t].pc = "store_access"
    /\ access_token' = Some(Val(callers[t].response).access_token)
    /\ callers' = [callers EXCEPT ![t].pc = "store_refresh"]
    /\ UNCHANGED <<refresh_token, token_expiry, trace, rframe>>

\* self.refresh_token = result["result"]["refresh_token"]
StoreRefreshToken(t) ==
    /\ callers[t].pc = "store_refresh"
    /\ refresh_token' = Some(Val(callers[t].response).refresh_token)
    /\ callers' = [callers EXCEPT ![t].pc = "store_expiry"]
    /\ UNCHANGED <<access_token, token_expiry, trace, rframe>>

\* self.token_expiry = time.time() + result["result"]["expires_in"]
StoreExpiry(t) ==
    /\ callers[t].pc = "store_expiry"
    /\ token_expiry' = Some(now + Val(callers[t].response).expires_in)
    /\ callers' = [callers EXCEPT ![t].pc = "log_refresh"]
    /\ UNCHANGED <<access_token, refresh_token, trace, rframe>>

\* the token_refresh line of a successful refresh; refresh_access_token returns
LogRefresh(t) ==
    /\ callers[t].pc = "log_refresh"
    /\ trace' = trace \o LineEvents(t,
                     log_auth(logger, <<>>,
                         AuthEntry("token_refresh", Some(client_id), Some("refresh_token"),
                                   None, None, Some(Val(callers[t].response).expires_in),
                                   access_token, Some(CredentialsSource), "success", None,
                                   Some("public/auth"))))
    /\ callers' = [callers EXCEPT ![t].pc = "return"]
    /\ UNCHANGED <<access_token, refresh_token, token_expiry, rframe>>

\* return {"Authorization": f"Bearer {self.access_token}", ...}
ReturnHeaders(t) ==
    /\ callers[t].pc = "return"
    /\ trace' = Append(trace, Event("return", t, None, None, Some(Headers(Self)), None))
    /\ callers' = [callers EXCEPT ![t].pc = "done"]
    /\ UNCHANGED <<access_token, refresh_token, token_expiry, rframe>>

RaceNext ==
    \/ \E t \in Threads : CheckValid(t)
    \/ \E t \in Threads : LogExpired(t)
    \/ \E t \in Threads : SendRefresh(t)
    \/ \E t \in Threads : ReceiveRefresh(t)
    \/ \E t \in Threads : StoreAccessToken(t)
    \/ \E t \in Threads : StoreRefreshToken(t)
    \/ \E t \in Threads : StoreExpiry(t)
    \/ \E t \in Threads : LogRefresh(t)
    \/ \E t \in Threads : ReturnHeaders(t)

RaceSpec == RaceInit /\ [][RaceNext]_vars

-----------------------------------------------------------------------------
(* Reading the state: the latest call and the lines it wrote *)

OptSet(o) == IF IsNone(o) THEN {} ELSE {Val(o)}

\* the texts of an error dict
ErrorTexts(error) ==
    IF IsNone(error) THEN {}
    ELSE OptSet(Val(error).exception_message) \cup OptSet(Val(error).error_message)

ParamTexts(params) == { params[i][2] : i \in DOMAIN params }

\* every text held by a line of any stream
LogTexts ==
    UNION { OptSet(auth_log[i].client_id) \cup OptSet(auth_log[i].token_prefix)
            \cup ErrorTexts(auth_log[i].error) : i \in DOMAIN auth_log }
    \cup UNION { ParamTexts(trades_log[i].request) \cup ErrorTexts(trades_log[i].error) :
                 i \in DOMAIN trades_log }
    \cup UNION { ParamTexts(api_log[i].params) \cup ErrorTexts(api_log[i].error) :
                 i \in DOMAIN api_log }

\* the latest call handed a header map to its caller (get_headers returned,
\* alone or inside _make_request)
HeaderReturned == ~IsNone(call.headers)

\* the latest call is a dispatch whose request reached the transport
Dispatched == call.op = "_make_request" /\ ~IsNone(call.response)

DispatchedTrade == Dispatched /\ Val(call.method) \in _TRADE_METHODS

\* what the transport answered to the dispatched request
TransportRaised == Dispatched /\ ~IsNone(Val(call.response).exc)
GotResult == Dispatched /\ ~TransportRaised /\ "result" \in DOMAIN Val(call.response).body
GotApiError ==
    Dispatched /\ ~TransportRaised /\ ~GotResult /\ "error" \in DOMAIN Val(call.response).body

\* the lines of the stream the dispatched method is classified to, and of the other
OwnStream == IF Val(call.method) \in _TRADE_METHODS THEN trades_log ELSE api_log
OtherStream == IF Val(call.method) \in _TRADE_METHODS THEN api_log ELSE trades_log

-----------------------------------------------------------------------------
(* Properties *)

\* C1: whenever get_headers returns a header, now < token_expiry - 60 at the
\* moment of return, for every prior state and every refresh response.
C1_HeaderTokenOutsideBuffer ==
    HeaderReturned =>
        /\ ~IsNone(token_expiry)
        /\ now < Val(token_expiry) - BufferSeconds

\* C2: after every call, returned or raised, access_token and token_expiry are
\* both present or both absent.
C2_TokenAndExpiryTogether ==
    IsNone(access_token) <=> IsNone(token_expiry)

\* C3: no line of any stream holds the client secret or the session's refresh
\* token, error lines built from exception texts included.
C3_SecretAndRefreshTokenNeverLogged ==
    \A text \in LogTexts :
        /\ ~Contains(text, client_secret)
        /\ ~IsNone(refresh_token) => ~Contains(text, Val(refresh_token))

\* C4: the client id appears in log lines only masked (first 4 characters and
\* the mask, or the mask alone for 4 characters or fewer); the unmasked client
\* id appears in no field of any line.
C4_ClientIdOnlyMasked ==
    /\ \A i \in DOMAIN auth_log :
          auth_log[i].client_id =
              Some(IF Len(client_id) <= 4 THEN <<"*", "*", "*", "*">>
                   ELSE SubSeq(client_id, 1, 4) \o <<"*", "*", "*", "*">>)
    /\ \A text \in LogTexts : ~Contains(text, client_id)

\* C5: an access token appears in log lines only as its first 10 characters
\* followed by the truncation marker; no line of any stream holds more than
\* the first 10 characters of any access token.
C5_AccessTokenOnlyPrefix ==
    /\ \A i \in DOMAIN auth_log :
          \/ IsNone(auth_log[i].token_prefix)
          \/ \E tok \in AccessTokens :
                Val(auth_log[i].token_prefix) = SubSeq(tok, 1, Min(10, Len(tok))) \o <<"...">>
    /\ \A i \in DOMAIN auth_log :
          auth_log[i].event \in {"auth_credentials", "auth_signature", "token_refresh"}
          /\ auth_log[i].status = "success"
          => auth_log[i].token_prefix =
                Some(SubSeq(Val(access_token), 1, Min(10, Len(Val(access_token)))) \o <<"...">>)
    /\ \A text \in LogTexts : \A tok \in AccessTokens :
          Len(tok) > 10 => ~Contains(text, SubSeq(tok, 1, 11))

\* C5 witness: a successful authentication that received the 12-character
\* token wrote a line holding its first 10 characters and the marker
C5_Witness ==
    /\ call.op = "authenticate_credentials"
    /\ ~call.raised
    /\ access_token = Some(LongToken)
    /\ Len(auth_log) = 1
    /\ auth_log[1].token_prefix = Some(SubSeq(LongToken, 1, 10) \o <<"...">>)

\* C6: every failing authenticate_credentials / authenticate_signature call
\* writes exactly one auth line, with event auth_failure and status error.
C6_OneFailureLinePerFailedAuth ==
    call.op \in {"authenticate_credentials", "authenticate_signature"} /\ call.raised
    => /\ Len(auth_log) = 1
       /\ auth_log[1].event = "auth_failure"
       /\ auth_log[1].status = "error"

\* C7: every dispatch of a trade method writes exactly one trade line and no
\* api line: status success with an order_id when the API answered with a
\* result, status error for every kind of failure.
C7_OneTradeLinePerTradeDispatch ==
    DispatchedTrade
    => /\ Len(trades_log) = 1
       /\ Len(api_log) = 0
       /\ GotResult => /\ trades_log[1].status = "success"
                       /\ ~IsNone(trades_log[1].response)
                       /\ ~IsNone(Val(trades_log[1].response).order_id)
       /\ ~GotResult => trades_log[1].status = "error"

\* C8: when the response holds a result, the dispatch writes one success line
\* to the stream of the method, writes no error line, raises nothing and
\* returns exactly that result, for every result shape.
C8_ResultIsLoggedAndReturned ==
    GotResult
    => /\ ~call.raised
       /\ call.value = Some(Val(call.response).body.result)
       /\ Len(OwnStream) = 1
       /\ OwnStream[1].status = "success"
       /\ Len(OtherStream) = 0

\* C9: when the response holds an API error object and no result, the dispatch
\* writes exactly one error line (API code, message, HTTP status) to the stream
\* of the method and raises the API error; the except clause adds no second line.
C9_OneLinePerApiError ==
    GotApiError
    => LET api_error == Val(call.response).body.error IN
       /\ call.raised
       /\ Val(call.exc).type = "Exception"
       /\ Val(call.exc).message = <<"API Error:", " ">> \o ReprErr(api_error)
       /\ Len(OwnStream) = 1
       /\ Len(OtherStream) = 0
       /\ OwnStream[1].status = "error"
       /\ ~IsNone(OwnStream[1].error)
       /\ Val(OwnStream[1].error).http_status = Some(200)
       /\ Val(OwnStream[1].error).exception_message = Some(Val(call.exc).message)
       /\ api_error.t = "dict"
          => /\ Val(OwnStream[1].error).error_code = Some(api_error.code)
             /\ Val(OwnStream[1].error).error_message = Some(api_error.message)
       /\ api_error.t = "str"
          => /\ Val(OwnStream[1].error).error_code = None
             /\ Val(OwnStream[1].error).error_message = Some(api_error.v)

\* C9 witness: private/buy answered with an error object left one trade line
\* carrying the API code
C9_Witness ==
    /\ GotApiError
    /\ call.method = Some("private/buy")
    /\ Val(call.response).body.error = ErrDict
    /\ Len(trades_log) = 1
    /\ Val(trades_log[1].error).error_code = Some(13004)
    /\ call.raised

\* C10: when the transport call of a dispatch raises, the dispatch writes
\* exactly one error line with the exception details to the stream of the
\* method and re-raises, whatever the text of the exception.
C10_OneLinePerTransportError ==
    TransportRaised
    => /\ call.raised
       /\ Len(OwnStream) = 1
       /\ Len(OtherStream) = 0
       /\ OwnStream[1].status = "error"
       /\ ~IsNone(OwnStream[1].error)
       /\ Val(OwnStream[1].error).exception_message = Some(Val(call.exc).message)

\* the token fields of the session
SessionFields == <<access_token, refresh_token, token_expiry, scope>>

\* C11: is_token_valid(buffer) returns false whenever no access token is held
\* or now >= token_expiry - buffer, and true otherwise; a token expiring in
\* exactly buffer seconds is reported as not valid.
C11_ValidIffOutsideBuffer ==
    call.op = "is_token_valid"
    => LET b == Val(call.buffer_seconds) IN
       /\ IsNone(access_token) => call.value = Some(FALSE)
       /\ ~IsNone(token_expiry) /\ now >= Val(token_expiry) - b => call.value = Some(FALSE)
       /\ ~IsNone(access_token) /\ ~IsNone(token_expiry) /\ now < Val(token_expiry) - b
          => call.value = Some(TRUE)

\* C11 witness: is_token_valid was asked about a token that expires in exactly
\* buffer seconds, with a buffer above zero, and answered false
C11_Witness ==
    /\ call.op = "is_token_valid"
    /\ ~IsNone(access_token)
    /\ ~IsNone(token_expiry)
    /\ Val(call.buffer_seconds) > 0
    /\ now = Val(token_expiry) - Val(call.buffer_seconds)
    /\ call.value = Some(FALSE)

\* C12: a get_headers call sends exactly one refresh request when
\* now >= token_expiry - 60 and a refresh token is held; when
\* now < token_expiry - 60 it sends no request, writes no line and changes no
\* session field.
C12_RefreshOnlyWhenDue ==
    [][ call'.op = "get_headers" =>
          /\ ( /\ ~IsNone(token_expiry)
               /\ now >= Val(token_expiry) - BufferSeconds
               /\ ~Falsy(refresh_token) )
             => /\ Len(call'.requests) = 1
                /\ call'.requests[1].method = "public/auth"
                /\ call'.requests[1].params =
                      << <<"grant_type", <<"refresh_token">> >>,
                         <<"refresh_token", Val(refresh_token)>> >>
          /\ ( /\ ~IsNone(token_expiry)
               /\ now < Val(token_expiry) - BufferSeconds )
             => /\ call'.requests = <<>>
                /\ auth_log' = <<>>
                /\ trades_log' = <<>>
                /\ api_log' = <<>>
                /\ SessionFields' = SessionFields
                /\ ~call'.raised
                /\ call'.headers = Some(Headers(Self))
      ]_vars

\* C12 witness: get_headers found the token inside the buffer, sent one
\* refresh request and returned the header of the new token
C12_Witness ==
    /\ call.op = "get_headers"
    /\ ~call.raised
    /\ Len(call.requests) = 1
    /\ Len(auth_log) = 2
    /\ auth_log[1].event = "token_expired"
    /\ auth_log[2].event = "token_refresh"
    /\ call.headers = Some(Headers(Self))

\* a thread is inside the with self._lock block of _write_entry
InsideLock(t) == threads[t].pc \in {"open", "write", "flush", "release"}

\* every piece of the file belongs to a line made of the two pieces of one
\* entry, in order; only the line at the end may still lack its second piece
WholeLines(content) ==
    \A i \in DOMAIN content :
        IF content[i].part = "head"
        THEN i < Len(content) => content[i + 1] = Chunk(content[i].log_id, "tail")
        ELSE i > 1 /\ content[i - 1] = Chunk(content[i].log_id, "head")

\* the file ends inside a line
Unfinished(f) == files[f] # <<>> /\ files[f][Len(files[f])].part = "head"

\* C13: for one logger called from concurrent threads through log_auth,
\* log_trade and log_api, at most one thread is inside the file append at any
\* time across the three categories; every line of every file is one complete
\* entry and holds pieces of no second entry (a line still lacking its end is
\* the one the thread inside the append is writing).
C13_OneWriterWholeLines ==
    /\ \A t1, t2 \in Threads : InsideLock(t1) /\ InsideLock(t2) => t1 = t2
    /\ \A f \in FileNames :
          /\ WholeLines(files[f])
          /\ Unfinished(f)
             => \E t \in Threads :
                   /\ threads[t].pc = "flush"
                   /\ threads[t].file = f
                   /\ threads[t].log_id = files[f][Len(files[f])].log_id

\* C13 witness: one thread is in the middle of its line while the other waits
\* for the lock to append to the same file
C13_Witness ==
    \E t1, t2 \in Threads :
        /\ t1 # t2
        /\ threads[t1].pc = "flush"
        /\ threads[t2].pc = "acquire"
        /\ threads[t2].file = threads[t1].file
        /\ Unfinished(threads[t1].file)

\* where the first piece of the entry log_id stands, in any file
PlacesOf(log_id) ==
    { <<f, i>> \in FileNames \X (1..(2 * MaxCalls)) :
         i \in DOMAIN files[f] /\ files[f][i] = Chunk(log_id, "head") }

\* the complete lines of the files of a category
LinesOf(category) ==
    { <<f, i>> \in FileNames \X (1..(2 * MaxCalls)) :
         /\ f.category = category
         /\ i \in DOMAIN files[f]
         /\ files[f][i].part = "tail" }

\* the log calls of a category that wrote their line and have not returned yet
Written(category) ==
    { t \in Threads : threads[t].category = category /\ threads[t].pc \in {"release", "return"} }

C14_OneLinePerReturnedCall ==
    /\ \A r \in returned :
          /\ Cardinality(PlacesOf(r.log_id)) = 1
          /\ \A pl \in PlacesOf(r.log_id) :
                /\ pl[1].category = r.category
                /\ pl[2] < Len(files[pl[1]])
                /\ files[pl[1]][pl[2] + 1] = Chunk(r.log_id, "tail")
    /\ \A c \in Categories :
          Cardinality(LinesOf(c)) =
              Cardinality({ r \in returned : r.category = c }) + Cardinality(Written(c))

C14_FilesOnlyGrow ==
    \A f \in FileNames :
        /\ Len(files[f]) <= Len(files'[f])
        /\ SubSeq(files'[f], 1, Len(files[f])) = files[f]

\* C14: log files are append-only and complete: each log call that has
\* returned added exactly one line, to a file of its own category and to no
\* other file; no line written earlier is changed or removed; per category,
\* the lines are those of the returned calls (and of the calls that have
\* written and are about to return).
C14_AppendOnlyAndComplete ==
    /\ C14_OneLinePerReturnedCall
    /\ [][C14_FilesOnlyGrow /\ C14_OneLinePerReturnedCall']_vars

\* C14 witness: all calls have returned, at least two of them, and one file
\* holds two lines
C14_Witness ==
    /\ \A t \in Threads : threads[t].pc = "idle"
    /\ Cardinality(returned) >= 2
    /\ \E f \in FileNames : Len(files[f]) = 4
    /\ \A c \in Categories :
          Cardinality(LinesOf(c)) = Cardinality({ r \in returned : r.category = c })

NoRefreshToken == <<"No refresh token available. Authenticate first.">>
SessionExpired == <<"Token expired and no refresh token available">>

\* C15: refresh_access_token called while the session holds no refresh token
\* raises the no-refresh-token error, sends no request and changes no session
\* field.
C15_NoRefreshTokenFailsUntouched ==
    [][ call'.op = "refresh_access_token" /\ Falsy(refresh_token) =>
          /\ call'.raised
          /\ Val(call'.exc).message = NoRefreshToken
          /\ call'.requests = <<>>
          /\ SessionFields' = SessionFields
      ]_vars

\* C15 witness: a session that holds an access token and no refresh token was
\* asked to refresh and raised without sending anything
C15_Witness ==
    /\ call.op = "refresh_access_token"
    /\ call.raised
    /\ Val(call.exc).message = NoRefreshToken
    /\ call.requests = <<>>
    /\ ~IsNone(access_token)
    /\ IsNone(refresh_token)

\* C16: get_headers called when the access token is absent or within the
\* buffer of expiry, and no refresh token is held, raises the session-expired
\* error, returns no header and sends no request.
C16_ExpiredWithoutRefreshToken ==
    [][ ( /\ call'.op = "get_headers"
          /\ Falsy(refresh_token)
          /\ \/ IsNone(access_token)
             \/ ~IsNone(token_expiry) /\ now >= Val(token_expiry) - BufferSeconds )
        => /\ call'.raised
           /\ Val(call'.exc).message = SessionExpired
           /\ IsNone(call'.headers)
           /\ IsNone(call'.value)
           /\ call'.requests = <<>>
      ]_vars

\* C16 witness: get_headers on a session whose token is within the buffer of
\* expiry and whose refresh token is empty raised the session-expired error
\* and sent nothing
C16_Witness ==
    /\ call.op = "get_headers"
    /\ call.raised
    /\ Val(call.exc).message = SessionExpired
    /\ call.requests = <<>>
    /\ IsNone(call.headers)
    /\ ~IsNone(access_token)
    /\ ~IsNone(token_expiry)
    /\ now >= Val(token_expiry) - BufferSeconds
    /\ Falsy(refresh_token)

\* C17: when refresh_access_token raises the no-refresh-token error or
\* get_headers raises the session-expired error, exactly one auth line has
\* been written by the call.
C17_TerminalFailuresLeaveOneLine ==
    ( /\ call.op \in {"refresh_access_token", "get_headers"}
      /\ call.raised
      /\ Val(call.exc).message \in {NoRefreshToken, SessionExpired} )
    => Len(auth_log) + Len(trades_log) + Len(api_log) = 1

\* what each source of credentials yields
Yields(e) ==
    { e.direct, e.env }
    \cup (IF e.json.exists THEN { Pair(e.json.client_id, e.json.client_secret) } ELSE {})
    \cup (IF e.dotenv.exists /\ ~IsNone(e.dotenv.client_id) /\ ~IsNone(e.dotenv.client_secret)
          THEN { Pair(Val(e.dotenv.client_id), Val(e.dotenv.client_secret)) } ELSE {})

\* C18: if no source of credentials yields both a client id and a client
\* secret, the constructor raises the credentials-required error, having sent
\* no request and written no session_start line, and no session exists.
C18_NoCredentialsNoSession ==
    ( /\ call.op = "__init__"
      /\ \A p \in Yields(environ) : ~Both(p) )
    => /\ call.raised
       /\ Val(call.exc).type = "ValueError"
       /\ call.requests = <<>>
       /\ auth_log = <<>>

\* C19: a successful authenticate_credentials or authenticate_signature, from
\* any prior state, sets access_token, refresh_token and scope to the values of
\* the response and token_expiry to now + expires_in, and writes exactly one
\* auth line with status success and event auth_credentials or auth_signature.
C19_SuccessfulAuthStoresResponse ==
    call.op \in {"authenticate_credentials", "authenticate_signature"} /\ ~call.raised
    => LET res == Val(call.auth_response).body.result IN
       /\ access_token = Some(res.access_token)
       /\ refresh_token = Some(res.refresh_token)
       /\ scope = Some(res.scope)
       /\ token_expiry = Some(now + res.expires_in)
       /\ call.value = Some(res)
       /\ Len(auth_log) = 1
       /\ auth_log[1].status = "success"
       /\ auth_log[1].event = IF call.op = "authenticate_credentials"
                              THEN "auth_credentials" ELSE "auth_signature"
       /\ trades_log = <<>>
       /\ api_log = <<>>

\* C19 witness: a session that already held the short token authenticated by
\* signature at a later time and now holds the long token of the response
C19_Witness ==
    /\ call.op = "authenticate_signature"
    /\ ~call.raised
    /\ now > 0
    /\ Val(call.auth_response).body.result.access_token = LongToken
    /\ access_token = Some(LongToken)
    /\ token_expiry = Some(now + Val(call.auth_response).body.result.expires_in)
    /\ Len(auth_log) = 1
    /\ auth_log[1].event = "auth_signature"

\* C20: refresh_access_token with a refresh token held: on success it replaces
\* access_token, refresh_token and token_expiry by the values of the response
\* and writes exactly one token_refresh line with status success; on failure
\* (API error or transport failure) it writes exactly one token_refresh line
\* with status error and raises.
C20_RefreshOutcome ==
    call.op = "refresh_access_token" /\ ~IsNone(call.auth_response)
    => LET body == Val(call.auth_response).body IN
       /\ Len(auth_log) = 1
       /\ auth_log[1].event = "token_refresh"
       /\ IF call.raised
          THEN auth_log[1].status = "error"
          ELSE /\ auth_log[1].status = "success"
               /\ access_token = Some(body.result.access_token)
               /\ refresh_token = Some(body.result.refresh_token)
               /\ token_expiry = Some(now + body.result.expires_in)

\* C21: is_token_valid is a pure predicate: for every session state and every
\* buffer value, a call changes no session field, sends no request, triggers
\* no refresh and writes no line to any stream.
C21_IsTokenValidIsPure ==
    [][ call'.op = "is_token_valid" =>
          /\ SessionFields' = SessionFields
          /\ call'.requests = <<>>
          /\ IsNone(call'.auth_response)
          /\ IsNone(call'.response)
          /\ auth_log' = <<>>
          /\ trades_log' = <<>>
          /\ api_log' = <<>>
          /\ ~call'.raised
          /\ call'.value = Some(is_token_valid(Self, now, Val(call'.buffer_seconds)))
      ]_vars

\* C21 witness: is_token_valid answered false for a session whose token is
\* inside the buffer while a refresh token is held; the token is still held
\* and nothing was sent or written
C21_Witness ==
    /\ call.op = "is_token_valid"
    /\ call.value = Some(FALSE)
    /\ ~IsNone(access_token)
    /\ ~Falsy(refresh_token)
    /\ ~IsNone(token_expiry)
    /\ now >= Val(token_expiry) - Val(call.buffer_seconds)
    /\ call.requests = <<>>
    /\ auth_log = <<>>

\* the requests of the latest call that went to the given method
RequestsTo(method) == { i \in DOMAIN call.requests : call.requests[i].method = method }

\* the request the latest call sent to public/auth was answered by a failure:
\* a transport error, a body without result, or a result lacking a token field
RefreshFailed ==
    /\ ~IsNone(call.auth_response)
    /\ LET r == Val(call.auth_response) IN
       \/ ~IsNone(r.exc)
       \/ "result" \notin DOMAIN r.body
       \/ /\ "result" \in DOMAIN r.body
          /\ ~({"access_token", "refresh_token", "expires_in"} \subseteq DOMAIN r.body.result)

\* C22: no operation retries. One dispatch sends at most one request for its
\* method and at most one refresh request; one authenticate or refresh call
\* sends at most one request; after the first failure the error is raised and
\* no further request is sent.
C22_NoRetry ==
    /\ call.op \in {"authenticate_credentials", "authenticate_signature",
                    "refresh_access_token", "get_headers"}
       => /\ Len(call.requests) <= 1
          /\ RequestsTo("public/auth") = DOMAIN call.requests
          /\ RefreshFailed => call.raised
    /\ call.op = "is_token_valid" => call.requests = <<>>
    /\ call.op = "_make_request"
       => /\ Cardinality(RequestsTo(Val(call.method))) <= 1
          /\ Cardinality(RequestsTo("public/auth")) <= 1
          /\ RequestsTo(Val(call.method)) \cup RequestsTo("public/auth") = DOMAIN call.requests
          /\ RefreshFailed
             => /\ call.raised
                /\ IsNone(call.response)
                /\ RequestsTo(Val(call.method)) = {}
                /\ Len(call.requests) = 1
          /\ Dispatched /\ ~GotResult => call.raised

\* C22 witness: a dispatch refreshed the token, sent the request of its method,
\* met a transport failure and raised after those two requests
C22_Witness ==
    /\ Dispatched
    /\ TransportRaised
    /\ call.raised
    /\ ~IsNone(call.auth_response)
    /\ ~RefreshFailed
    /\ Len(call.requests) = 2
    /\ call.requests[1].method = "public/auth"
    /\ call.requests[2].method = Val(call.method)

\* the (name, value) pairs a request carries
ParamsOf(req) == { req.params[i] : i \in DOMAIN req.params }

\* the value a request carries under a parameter name
Param(req, name) == (CHOOSE p \in ParamsOf(req) : p[1] = name)[2]

\* C24: the request of a signature grant carries grant_type client_signature,
\* client_id, timestamp, nonce, data, signature and scope; the signature is
\* the keyed hash, with client_secret as key, of exactly the timestamp, nonce
\* and data of that same request joined by newlines; the request never
\* carries client_secret.
C24_SignatureRequest ==
    call.op = "authenticate_signature"
    => /\ Len(call.requests) = 1
       /\ LET req == call.requests[1] IN
          /\ req.method = "public/auth"
          /\ [i \in DOMAIN req.params |-> req.params[i][1]]
                = <<"grant_type", "client_id", "timestamp", "nonce", "data", "signature", "scope">>
          /\ Param(req, "grant_type") = <<"client_signature">>
          /\ Param(req, "client_id") = client_id
          /\ Param(req, "nonce") \in Nonces
          /\ Param(req, "data") \in Datas
          /\ Param(req, "timestamp") = <<ToString(now * 1000)>>
          /\ Param(req, "scope") = <<DefaultScope>>
          /\ Param(req, "signature")
                = HexDigest(client_secret,
                            Param(req, "timestamp") \o <<"\n">> \o Param(req, "nonce")
                               \o <<"\n">> \o Param(req, "data"))
          /\ \A p \in ParamsOf(req) : ~Contains(p[2], client_secret)
          /\ IsNone(req.headers)

\* C24 witness: a signature grant sent at a time after zero signed a data text
\* that is not empty, and the server accepted it
C24_Witness ==
    /\ call.op = "authenticate_signature"
    /\ ~call.raised
    /\ now > 0
    /\ Len(call.requests) = 1
    /\ Param(call.requests[1], "data") # <<>>
    /\ Param(call.requests[1], "nonce") = <<"z", "9", "n", "c", "e", "0", "0", "2">>

\* the dispatched methods whose name starts with public/
PublicMethods == { "public/ticker" }

\* C26: a dispatch of a public method never calls get_headers: it sends no
\* Authorization header, starts no refresh, writes no auth line, leaves the
\* session unchanged, and reaches the transport even when the session is
\* unauthenticated or expired. A dispatch of a private method obtains the
\* header from get_headers before it reaches the transport.
C26_PublicSkipsHeaderPrivateNeedsIt ==
    [][ call'.op = "_make_request" =>
          LET method == Val(call'.method)
              sent == { i \in DOMAIN call'.requests : call'.requests[i].method = method }
          IN
          /\ method \in PublicMethods
             => /\ Len(call'.requests) = 1
                /\ sent = {1}
                /\ IsNone(call'.requests[1].headers)
                /\ IsNone(call'.headers)
                /\ IsNone(call'.auth_response)
                /\ ~IsNone(call'.response)
                /\ auth_log' = <<>>
                /\ SessionFields' = SessionFields
          /\ method \notin PublicMethods
             => \A rr \in { IF IsNone(call'.auth_response)
                             THEN Response(None, [jsonrpc |-> "2.0"])
                             ELSE Val(call'.auth_response) } :
                \A h \in { get_headers(Self, now, logger, client_id, rr) } :
                /\ ~IsNone(h.exc)
                   => /\ sent = {}
                      /\ IsNone(call'.response)
                      /\ call'.raised
                      /\ call'.exc = h.exc
                /\ IsNone(h.exc)
                   => /\ Cardinality(sent) = 1
                      /\ ~IsNone(call'.response)
                      /\ \A i \in sent :
                            /\ call'.requests[i].headers = h.value
                            /\ \A j \in DOMAIN h.reqs : j < i /\ call'.requests[j] = h.reqs[j]
                      /\ Val(h.value).Authorization
                            = <<"Bearer ">> \o Val(access_token')
      ]_vars

\* C26 witness: public/ticker was dispatched on a session that never
\* authenticated and was answered with a result
C26_Witness ==
    /\ call.op = "_make_request"
    /\ Val(call.method) \in PublicMethods
    /\ IsNone(access_token)
    /\ IsNone(token_expiry)
    /\ GotResult
    /\ ~call.raised
    /\ IsNone(call.requests[1].headers)

\* the dispatched request was answered by a body with neither result nor error
GotMalformed == Dispatched /\ ~TransportRaised /\ ~GotResult /\ ~GotApiError

\* C27: when the response holds neither a result nor an error, the dispatch
\* writes exactly one error line to the stream of the method, with the HTTP
\* status present and the API code and message absent, and raises the
\* unexpected-response error; the except clause adds no second line.
C27_OneLinePerMalformedResponse ==
    GotMalformed
    => /\ call.raised
       /\ Val(call.exc).type = "Exception"
       /\ Val(call.exc).message
             = <<"Unexpected response:", " ">> \o ReprBody(Val(call.response).body)
       /\ Len(OwnStream) = 1
       /\ Len(OtherStream) = 0
       /\ OwnStream[1].status = "error"
       /\ OwnStream[1].api_method = Val(call.method)
       /\ IsNone(OwnStream[1].response)
       /\ ~IsNone(OwnStream[1].error)
       /\ Val(OwnStream[1].error).http_status = Some(200)
       /\ Val(OwnStream[1].error).error_code = None
       /\ Val(OwnStream[1].error).error_message = None
       /\ Val(OwnStream[1].error).exception_message = Some(Val(call.exc).message)

\* C27 witness: private/get_positions was answered by a body with neither
\* result nor error and left one line on the api stream
C27_Witness ==
    /\ GotMalformed
    /\ call.method = Some("private/get_positions")
    /\ call.raised
    /\ Len(api_log) = 1
    /\ api_log[1].event = "api_error"
    /\ Len(trades_log) = 0

\* C28: every success line of the api stream records a result count next to
\* the raw payload: the length of the result when it is a sequence (0 for an
\* empty one), 1 otherwise.
C28_ResultCountOnEverySuccess ==
    \A i \in DOMAIN api_log :
        api_log[i].status = "success"
        => /\ GotResult
           /\ ~IsNone(api_log[i].response)
           /\ LET api_result == Val(call.response).body.result IN
              /\ Val(api_log[i].response).raw_response = api_result
              /\ Val(api_log[i].response).result_count
                    = IF api_result.t = "list" THEN Len(api_result.v) ELSE 1

\* the latest call is a dispatch of a private method that raised before its
\* request reached the transport: get_headers failed
HeaderFailed ==
    /\ call.op = "_make_request"
    /\ Val(call.method) \notin PublicMethods
    /\ IsNone(call.response)
    /\ call.raised

\* C29: a dispatch of a private method whose get_headers fails still records
\* exactly one error line for the dispatched method, on the trade stream for a
\* trade method and on the api stream otherwise.
C29_HeaderFailureLeavesOneLine ==
    HeaderFailed
    => /\ Len(OwnStream) = 1
       /\ Len(OtherStream) = 0
       /\ OwnStream[1].status = "error"
       /\ OwnStream[1].api_method = Val(call.method)

\* the sources load reads, in priority order, and whether a source supplies
\* both values by itself
Sources == <<"json", "env", "dotenv">>

Supplies(source) ==
    CASE source = "json" ->
           environ.json.exists /\ Both(Pair(environ.json.client_id, environ.json.client_secret))
      [] source = "env" -> Both(environ.env)
      [] source = "dotenv" ->
           /\ environ.dotenv.exists
           /\ ~IsNone(environ.dotenv.client_id)
           /\ ~IsNone(environ.dotenv.client_secret)
           /\ Both(Pair(Val(environ.dotenv.client_id), Val(environ.dotenv.client_secret)))

\* C30: the pair CredentialsManager.load returns always comes from exactly one
\* source, the first in priority order (JSON file, environment, .env file)
\* that supplies both values; it is never assembled from two sources.
C30_PairFromOneSource ==
    call.op = "load"
    => LET p == Val(call.value)
           first == { i \in DOMAIN Sources :
                        Supplies(Sources[i]) /\ \A j \in 1..(i - 1) : ~Supplies(Sources[j]) }
       IN
       /\ \A i \in first : p = Pair(IdOf(Sources[i]), SecretOf(Sources[i]))
       /\ first = {} => p = Pair(NoText, NoText)

\* the places of trace where a thread did something of a kind
EventsOf(t, kind) == { i \in DOMAIN trace : trace[i].thread = t /\ trace[i].kind = kind }

\* the places of trace where a thread wrote a line of the given event
LinesNamed(t, event) == { i \in EventsOf(t, "line") : Val(trace[i].line).event = event }

\* the token a thread read at its validity check was inside the buffer
SawExpiring(t) ==
    /\ callers[t].pc # "idle"
    /\ ~IsNone(callers[t].observed.token_expiry)
    /\ now >= Val(callers[t].observed.token_expiry) - BufferSeconds

\* C23: get_headers takes no lock. Every thread whose validity check read a
\* token inside the buffer while a refresh token is held sends one refresh
\* request of its own, whatever the other thread has read, sent or stored in
\* between; so two concurrent get_headers calls that read the same expiring
\* token both send a refresh request.
C23_EachObserverRefreshes ==
    \A t \in Threads :
        SawExpiring(t) /\ ~Falsy(refresh_token) /\ callers[t].pc = "done"
        => /\ Cardinality(EventsOf(t, "request")) = 1
           /\ \A i \in EventsOf(t, "request") :
                 /\ Val(trace[i].request).method = "public/auth"
                 /\ Val(trace[i].request).params[1] = <<"grant_type", <<"refresh_token">> >>

\* C23 witness: both threads read the same token, inside the buffer, and both
\* sent a refresh request carrying the same refresh token
C23_Witness ==
    /\ \A t \in Threads : SawExpiring(t) /\ callers[t].pc = "done"
    /\ callers["t1"].observed = callers["t2"].observed
    /\ callers["t1"].sent = callers["t2"].sent
    /\ \A t \in Threads : Cardinality(EventsOf(t, "request")) = 1
    /\ Cardinality({ i \in DOMAIN trace : trace[i].kind = "request" }) = 2

\* C25: in get_headers, when a refresh is needed and a refresh token is held,
\* the token_expired line is written before the refresh request is sent and
\* the token_refresh line after it; the header is returned only after the
\* refresh has completed successfully.
C25_ExpiredLineRequestRefreshLine ==
    \A t \in Threads :
        /\ \A i \in EventsOf(t, "request") :
              /\ \E j \in LinesNamed(t, "token_expired") : j < i
              /\ \A k \in LinesNamed(t, "token_refresh") : i < k
        /\ \A k \in LinesNamed(t, "token_refresh") : \E i \in EventsOf(t, "request") : i < k
        /\ \A m \in EventsOf(t, "return") :
              SawExpiring(t)
              => \E i \in EventsOf(t, "request") :
                 \E k \in LinesNamed(t, "token_refresh") :
                    /\ i < k
                    /\ k < m
                    /\ Val(trace[k].line).status = "success"
        /\ \A k \in LinesNamed(t, "token_refresh") :
              Val(trace[k].line).status = "error" => EventsOf(t, "return") = {}
        /\ callers[t].pc \in {"await", "store_access", "store_refresh", "store_expiry",
                              "log_refresh"}
           => EventsOf(t, "return") = {}

\* C25 witness: a thread wrote token_expired, sent the refresh request, wrote
\* token_refresh and returned the header of the new token, in that order
C25_Witness ==
    \E t \in Threads :
    \E j \in LinesNamed(t, "token_expired") :
    \E i \in EventsOf(t, "request") :
    \E k \in LinesNamed(t, "token_refresh") :
    \E m \in EventsOf(t, "return") :
        /\ j < i
        /\ i < k
        /\ k < m
        /\ Val(trace[k].line).status = "success"
        /\ Val(trace[m].headers).Authorization
              = <<"Bearer ">> \o Val(callers[t].response).access_token

\* the tag that names a source
TagOf(source) ==
    CASE source = "direct" -> "direct_parameters"
      [] source = "json" -> "json_file:credentials.json"
      [] source = "env" -> "environment_variables"
      [] source = "dotenv" -> "dotenv_file"

\* C31: the source tag recorded on the session and written to the
\* session_start line names the source the credentials were actually taken
\* from (direct parameters, JSON file, environment, .env file), for every
\* combination of sources present, absent or incomplete.
C31_TagNamesSourceUsed ==
    call.op = "__init__" /\ ~call.raised
    => \E source \in {"direct", "json", "env", "dotenv"} :
          /\ client_id = IdOf(source)
          /\ client_secret = SecretOf(source)
          /\ _credentials_source = Some(TagOf(source))
          /\ \A i \in DOMAIN auth_log :
                auth_log[i].credentials_source = Some(TagOf(source))

\* C32: whenever authenticate_credentials, authenticate_signature or
\* refresh_access_token raises (API error, transport failure, malformed result
\* object), access_token, refresh_token, token_expiry and scope all have the
\* values they had before the call: a call never both raises and leaves new or
\* partially updated tokens.
C32_RaisingCallLeavesSession ==
    [][ ( /\ call'.op \in {"authenticate_credentials", "authenticate_signature",
                           "refresh_access_token"}
          /\ call'.raised )
        => SessionFields' = SessionFields
      ]_vars

\* some authenticate call has succeeded on the session: scope is assigned by a
\* successful authenticate_credentials or authenticate_signature only, as the
\* last of the four assignments
HasAuthenticated == ~IsNone(scope)

C34_FileOfTheEntrysDay ==
    \A t \in Threads :
        threads[t].pc \in {"flush", "release", "return"}
        => /\ \E i \in DOMAIN files[threads[t].file] :
                 files[threads[t].file][i] = Chunk(threads[t].log_id, "head")
           /\ threads[t].file = FileName(threads[t].category, threads[t].timestamp)

\* the answer a call consumed, or a blank body when it consumed none
Consumed(response) ==
    IF IsNone(response) THEN Response(None, [jsonrpc |-> "2.0"]) ELSE Val(response)

\* what the caller sees of a call: the value returned or the exception raised,
\* and the session it leaves
Seen(eff) == [value |-> eff.value, exc |-> eff.exc, s |-> eff.s]

\* C35: attaching a logger is observationally neutral: for the same session
\* state, the same call and the same transport answers, _make_request,
\* authenticate_credentials, refresh_access_token and get_headers return the
\* same value or raise the same exception and leave the same session whether
\* a logger is attached or not; logging never turns a success into a failure.
C35_LoggerIsNeutral ==
    [][ LET seen == [value |-> call'.value, exc |-> call'.exc, s |-> Self']
            rr == Consumed(call'.auth_response)
        IN
        /\ call'.op = "_make_request"
           => seen = Seen(_make_request(Self, now, FALSE, client_id, Val(call'.method),
                                        RequestParams(Val(call'.method)), rr,
                                        Consumed(call'.response)))
        /\ call'.op = "authenticate_credentials"
           => seen = Seen(authenticate_credentials(Self, now, FALSE, client_id, client_secret,
                                                   DefaultScope, rr))
        /\ call'.op = "refresh_access_token"
           => seen = Seen(refresh_access_token(Self, now, FALSE, client_id, <<>>, rr))
        /\ call'.op = "get_headers"
           => seen = Seen(get_headers(Self, now, FALSE, client_id, rr))
      ]_vars

\* an answer whose body holds both a result key and an error key
BothKeys(r) == IsNone(r.exc) /\ "result" \in DOMAIN r.body /\ "error" \in DOMAIN r.body

\* C36: when a response holds both a result key and an error key,
\* _make_request, the authenticate calls and refresh_access_token treat it as
\* a success: the result is used and returned, one success line is written
\* and the error object is ignored.
C36_ResultWinsOverError ==
    /\ ( Dispatched /\ BothKeys(Val(call.response)) )
       => /\ ~call.raised
          /\ call.value = Some(Val(call.response).body.result)
          /\ Len(OwnStream) = 1
          /\ Len(OtherStream) = 0
          /\ OwnStream[1].status = "success"
          /\ IsNone(OwnStream[1].error)
    /\ ( /\ call.op \in {"authenticate_credentials", "authenticate_signature",
                         "refresh_access_token"}
         /\ ~IsNone(call.auth_response)
         /\ BothKeys(Val(call.auth_response)) )
       => LET res == Val(call.auth_response).body.result IN
          /\ ~call.raised
          /\ call.value = Some(res)
          /\ access_token = Some(res.access_token)
          /\ refresh_token = Some(res.refresh_token)
          /\ token_expiry = Some(now + res.expires_in)
          /\ Len(auth_log) = 1
          /\ auth_log[1].status = "success"
          /\ IsNone(auth_log[1].error)

\* the latest call answered by a successful grant: its result was stored
GrantSucceeded ==
    /\ call.op \in {"authenticate_credentials", "authenticate_signature",
                    "refresh_access_token", "get_headers", "_make_request"}
    /\ ~IsNone(call.auth_response)
    /\ ~RefreshFailed
    /\ call.op \in {"authenticate_credentials", "authenticate_signature"} => ~call.raised

\* C37: every refresh request carries exactly grant_type refresh_token and
\* the refresh token most recently received by the session, from the last
\* successful authenticate or refresh; after a successful refresh the previous
\* refresh token is never sent again. Stated step by step: a refresh request
\* carries the refresh token held before the call, and the refresh token held
\* changes only when a grant succeeds, to the one that grant received.
C37_RefreshSendsLatestToken ==
    [][ /\ \A i \in DOMAIN call'.requests :
              ( /\ call'.op \in {"refresh_access_token", "get_headers", "_make_request"}
                /\ call'.requests[i].method = "public/auth" )
              => call'.requests[i].params
                    = << <<"grant_type", <<"refresh_token">> >>,
                         <<"refresh_token", Val(refresh_token)>> >>
        /\ refresh_token' # refresh_token
           => /\ GrantSucceeded'
              /\ refresh_token'
                    = Some(Val(call'.auth_response).body.result.refresh_token)
      ]_vars

\* the Authorization value that carries a token
Bearer(token) == <<"Bearer ">> \o token

\* C38: the Authorization header get_headers returns always carries the
\* access token the session holds; when get_headers refreshed, it carries the
\* access token that refresh obtained, never the expired one it replaced; the
\* request of a private dispatch is sent with that header.
C38_HeaderCarriesCurrentToken ==
    /\ ( call.op \in {"get_headers", "_make_request"} /\ HeaderReturned )
       => /\ ~IsNone(access_token)
          /\ Val(call.headers).Authorization = Bearer(Val(access_token))
          /\ ~IsNone(call.auth_response)
             => Val(call.headers).Authorization
                   = Bearer(Val(call.auth_response).body.result.access_token)
    /\ call.op = "get_headers" /\ ~call.raised
       => HeaderReturned /\ call.value = call.headers
    /\ ( Dispatched /\ Val(call.method) \notin PublicMethods )
       => /\ HeaderReturned
          /\ \A i \in RequestsTo(Val(call.method)) :
                call.requests[i].headers = call.headers

\* C38 witness: a private dispatch on a session holding the short token
\* refreshed it and sent its request with the long token the refresh obtained
C38_Witness ==
    /\ Dispatched
    /\ Val(call.method) = "private/get_positions"
    /\ Len(call.requests) = 2
    /\ call.requests[1].params[2] = <<"refresh_token", RefreshTokenOf(ShortToken)>>
    /\ access_token = Some(LongToken)
    /\ Val(call.requests[2].headers).Authorization = Bearer(LongToken)

====
